---- MODULE Spec2Model ----
\* Model of pkg/typeregistry (telemac/natsservice): the runtime type registry,
\* its registration, alias, lookup and tagged JSON operations.
EXTENDS Integers, Sequences, FiniteSets, TLC

VARIABLES
    types,      \* Registry.types   : name -> TypeInfo
    rtypes,     \* Registry.rtypes  : element type -> primary name
    aliases,    \* Registry.aliases : alias -> primary name
    last,       \* the last call: operation, the name it was about, returned error
    mu,         \* Registry.mu, the sync.RWMutex: its writer and its readers
    pc,         \* per goroutine: where it stands in the call it is running
    loc,        \* per goroutine: the call's arguments and local variables
    service,    \* natsservice: the *Service that StartService returned last
    endpoints,  \* the endpoints the micro service holds, in the order added
    attached,   \* per endpointer: the *Service that SetService gave it
    lastSvc,    \* the last natsservice call and what came of it
    memkv,      \* keyvalue: the MemoryKV, its data map and whether it has a registry
    jskv,       \* the JetStreamKV: the bucket's entries and whether it has a registry
    kvmu,       \* MemoryKV.mu, the sync.RWMutex: its writer and its readers
    kvpc,       \* per goroutine: where it stands in the MemoryKV call it is running
    kvloc,      \* per goroutine: that call's arguments and result
    lastKv,     \* the last key-value call that returned and what it returned
    stream,     \* the source bucket's stream: its revision and the last entry per key
    destkv,     \* the destination KeyValuer of SynchronizeWithKV
    watcher,    \* the KeyWatcher: the updates waiting in its channel, closed, stopped
    syncCtx,    \* the context handed to SynchronizeWithKV: live, canceled or timed out
    sync,       \* the SynchronizeWithKV call: where it stands, err, what it returned
    embedded,   \* natstools: the *EmbeddedServer that was returned last
    lastEmb,    \* the last natstools call and what it returned
    natsConn,   \* the *nats.Conn of RequestAsync: its status and its subscriptions
    req,        \* the RequestAsync call: where it stands, its inbox, what it returned
    replies     \* the replies on their way to the connection, by inbox

conc == <<mu, pc, loc>>
typeregistryVars == <<types, rtypes, aliases, last, mu, pc, loc>>
serviceVars == <<service, endpoints, attached, lastSvc>>
\* the state of the other packages, which the registry's operations leave alone
kvConc == <<kvmu, kvpc, kvloc>>
kvVars == <<memkv, jskv, kvmu, kvpc, kvloc, lastKv>>
syncVars == <<stream, destkv, watcher, syncCtx, sync>>
natstoolsVars == <<embedded, lastEmb>>
requestVars == <<natsConn, req, replies>>
others == <<serviceVars, kvVars, syncVars, natstoolsVars, requestVars>>
\* the state natsservice's operations leave alone
outsideService == <<typeregistryVars, kvVars, syncVars, natstoolsVars, requestVars>>
\* the state the key-value stores' operations leave alone
outsideKv == <<typeregistryVars, serviceVars, syncVars, natstoolsVars, requestVars>>
\* the state SynchronizeWithKV and its source leave alone
outsideSync ==
    <<typeregistryVars, serviceVars, memkv, kvmu, kvpc, kvloc, lastKv, natstoolsVars,
      requestVars>>
\* the state natstools' operations leave alone
outsideNatstools == <<typeregistryVars, serviceVars, kvVars, syncVars, requestVars>>
\* the state RequestAsync and its connection leave alone
outsideRequest == <<typeregistryVars, serviceVars, kvVars, syncVars, natstoolsVars>>
vars == <<typeregistryVars, serviceVars, kvVars, syncVars, natstoolsVars, requestVars>>

\* ------------------------------------------------------------------ bounds
\* longest batch handed to RegisterBatch
MaxBatch == 2
MaxEndpoints == 2
\* most writes to the source bucket, which number its revisions
MaxRevision == 3
\* most RequestAsync calls, each with an inbox of its own
MaxCalls == 2
\* most replies on their way at a time
MaxReplies == 2

\* ------------------------------------------------------------------ strings
\* A Go string is the sequence of its characters.
NameChars == {"a", "b", "c", "d", "t", "U", "O", "s", ".", "_", "-", "0"}


EmptyName == << >>
BadName == <<"a", "!">>

\* nameRegex = ^[a-zA-Z0-9_.-]+$
nameRegexMatch(s) == Len(s) > 0 /\ \A i \in 1..Len(s) : s[i] \in NameChars

\* the part of s after its last "/" (strings.Split(s, "/") then parts[len-1])
RECURSIVE LastSegment(_)
LastSegment(s) ==
    IF \E i \in 1..Len(s) : s[i] = "/"
    THEN LastSegment(SubSeq(s, (CHOOSE i \in 1..Len(s) : s[i] = "/") + 1, Len(s)))
    ELSE s

\* ------------------------------------------------------------------ reflect.Type
\* The Go types of the tests: User{Name string; Age int}, Order{ID string},
\* string, and the pointers to them.
StructTypes == {"User", "Order"}
ElemTypes == StructTypes \cup {"string"}
PtrTypes == {"*User", "*Order", "*string"}
GoTypes == ElemTypes \cup PtrTypes

Kind(rt) == IF rt \in PtrTypes THEN "ptr" ELSE IF rt \in StructTypes THEN "struct" ELSE "string"

PtrTo(t) == CASE t = "User" -> "*User" [] t = "Order" -> "*Order" [] t = "string" -> "*string"

\* reflect.Type.Elem: defined on pointers, panics on a struct or a string
CanElem(rt) == rt \in PtrTypes
Elem(rt) == CASE rt = "*User" -> "User" [] rt = "*Order" -> "Order" [] rt = "*string" -> "string"

PkgPath(t) == IF t \in StructTypes THEN <<"s", "/", "t">> ELSE << >>
TypeName(t) == CASE t = "User" -> <<"U">> [] t = "Order" -> <<"O">> [] OTHER -> <<"s">>

inferTypeName(rt) ==
    LET elemType == Elem(rt)
        pkgPath == PkgPath(elemType)
        typeName == TypeName(elemType)
    IN  IF pkgPath = << >> THEN typeName
        ELSE LastSegment(pkgPath) \o <<".">> \o typeName

normalizeType(rt) == IF Kind(rt) = "ptr" THEN Elem(rt) ELSE rt

\* ------------------------------------------------------------------ names in use
ExplicitNames == {<<"a">>}
InferredNames == {inferTypeName(PtrTo(t)) : t \in StructTypes}
ValidNames == ExplicitNames \cup InferredNames
Names == ValidNames \cup {EmptyName, BadName}
UserName == inferTypeName("*User")
OrderName == inferTypeName("*Order")

\* ------------------------------------------------------------------ TypeInfo
Metadatas == {"nil", "v1"}
\* "nil" or the validator of TestValidationHook: a *User whose Age is not negative
Validators == {"nil", "ageNotNegative"}

TypeInfo(rt, metadata, validate) ==
    [Type |-> rt, Metadata |-> metadata, Validate |-> validate, Aliases |-> << >>]

EmptyMap == [x \in {} |-> x]
Put(m, k, v) == [x \in DOMAIN m \cup {k} |-> IF x = k THEN v ELSE m[x]]
Del(m, k) == [x \in DOMAIN m \ {k} |-> m[x]]

Reg(t, rt, al) == [types |-> t, rtypes |-> rt, aliases |-> al]
Cur == Reg(types, rtypes, aliases)

Call(op, name, err) == [op |-> op, name |-> name, err |-> err]
NoCall == Call("none", EmptyName, "nil")

\* the goroutines that call the registry concurrently
Goroutines == {"g1", "g2"}
Unlocked == [w |-> "none", r |-> {}]
NoLocals == [op |-> "none"]

\* ------------------------------------------------------------------ natsservice
\* A Go string is the sequence of its parts; "" is the empty sequence.
EmptyString == << >>
NoError == << >>
\* fmt.Errorf("...: %w", err): the message in front of the error it wraps
Wrap(msg, err) == <<msg>> \o err

\* ServiceConfig; Description and Metadata are passed on and never tested
ServiceConfig(ctx, nc, logger, name, group, version) ==
    [Ctx |-> ctx, Nc |-> nc, Logger |-> logger, Name |-> name, Group |-> group,
     Version |-> version]
Configs ==
    {ServiceConfig(ctx, nc, logger, name, group, version) :
         ctx \in {"nil", "ctx"}, nc \in {"nil", "closed", "nc"}, logger \in {"nil", "log"},
         name \in {EmptyString, <<"demo">>}, group \in {EmptyString, <<"demo">>},
         version \in {EmptyString, <<"0.1.0">>}}
NoConfig == ServiceConfig("nil", "nil", "nil", EmptyString, EmptyString, EmptyString)

\* a *Service: isNil for the nil pointer, hasConfig for svc.config != nil,
\* microSvc "nil" until micro.AddService has returned a service
ServiceOf(hasConfig, config, microSvc) ==
    [isNil |-> FALSE, hasConfig |-> hasConfig, config |-> config, microSvc |-> microSvc]
NilService == [isNil |-> TRUE, hasConfig |-> FALSE, config |-> NoConfig, microSvc |-> "nil"]

\* EndpointConfig; isNil for a Config() that returns nil
EndpointConfig(name, metadata, queueGroup, subject) ==
    [isNil |-> FALSE, Name |-> name, Metadata |-> metadata, QueueGroup |-> queueGroup,
     Subject |-> subject]
NilEndpointConfig ==
    [isNil |-> TRUE, Name |-> EmptyString, Metadata |-> {}, QueueGroup |-> EmptyString,
     Subject |-> EmptyString]
\* the endpointers of the calls: the greet example, one with a custom subject and
\* metadata, one whose Config() is nil, one without a name; "nil" is the nil interface
Endpointers == {"greet", "add", "noconfig", "noname"}
ConfigOf(e) ==
    CASE e = "greet" -> EndpointConfig(<<"greet">>, {}, <<"workers">>, EmptyString)
      [] e = "add" -> EndpointConfig(<<"add">>, {"author"}, EmptyString, <<"math", ".", "add">>)
      [] e = "noconfig" -> NilEndpointConfig
      [] e = "noname" -> EndpointConfig(EmptyString, {}, EmptyString, EmptyString)

\* a natsservice call: the operation, the endpointer, the error returned, and for
\* a request handled: whether Handle panicked, the responses sent, whether the
\* panic left Handle; for StartService: whether micro.AddService was called
SvcCall(op, ep, err, panicked, sent, escaped, microCalled) ==
    [op |-> op, ep |-> ep, err |-> err, panicked |-> panicked, sent |-> sent,
     escaped |-> escaped, microCalled |-> microCalled]
NoSvcCall == SvcCall("none", "nil", NoError, FALSE, << >>, FALSE, FALSE)

\* ------------------------------------------------------------------ keyvalue
\* the keys of the calls; "" is the empty key
KvKeys == {"", "a", "b"}
NonEmptyKeys == KvKeys \ {""}
ErrKeyNotFound == <<"key not found">>
ErrEmptyKey == <<"empty is key">>

\* a []byte: the nil slice, raw bytes, or the JSON text of a TypedData
NoTypedData == [valid |-> FALSE, type |-> << >>, data |-> [valid |-> FALSE]]
NilBytes == [isNil |-> TRUE, kind |-> "raw", raw |-> << >>, typed |-> NoTypedData]
RawBytes(b) == [isNil |-> FALSE, kind |-> "raw", raw |-> b, typed |-> NoTypedData]
JsonBytes(td) == [isNil |-> FALSE, kind |-> "json", raw |-> << >>, typed |-> td]
ByteValues == {NilBytes, RawBytes(<< >>), RawBytes(<<"v">>)}

\* WithTTL(d) for the durations d, and the options of a call: none or one WithTTL
Durations == {-1, 0, 1}
WithTTL(ttl) == [ttl |-> ttl]
SetOptions == {<< >>} \cup {<<WithTTL(d)>> : d \in Durations}

\* &MemoryKV{data, registry} and &JetStreamKV{bucket, registry}; hasRegistry is
\* registry != nil, the registry itself is the typeregistry state
MemoryKV(data, hasRegistry) == [data |-> data, hasRegistry |-> hasRegistry]
JetStreamKV(bucket, hasRegistry) == [bucket |-> bucket, hasRegistry |-> hasRegistry]

\* a key-value call that returned: the store, the operation, the key, the error,
\* the bytes (Get), the flag (Exists)
KvCall(store, op, key, err, val, exists, typed) ==
    [store |-> store, op |-> op, key |-> key, err |-> err, val |-> val,
     exists |-> exists, typed |-> typed]
NoKvCall ==
    KvCall("none", "none", "", NoError, NilBytes, FALSE, [type |-> "nil", fields |-> EmptyMap])

\* the goroutines that call the MemoryKV concurrently
KvGoroutines == {"k1", "k2"}
NoKvLocals == [op |-> "none"]

\* ------------------------------------------------------------------ SynchronizeWithKV
\* a KeyValueEntry of the source bucket: key, operation, value and revision
Entry(key, op, value, revision) ==
    [isNil |-> FALSE, key |-> key, op |-> op, value |-> value, revision |-> revision]
\* the nil entry a watcher sends once the initial values are out
NilEntry == [isNil |-> TRUE, key |-> "", op |-> "nil", value |-> NilBytes, revision |-> 0]
EmptyStream == [revision |-> 0, last |-> << >>]
NoWatcher == [keys |-> << >>, updates |-> << >>, closed |-> FALSE, stopped |-> FALSE]
\* the call has not been made; applied is the revision of the last update it
\* has handled, failed whether an operation of the destination has failed
NoSync ==
    [pc |-> "idle", keys |-> << >>, err |-> NoError, ret |-> NoError, applied |-> 0,
     failed |-> FALSE]

\* natstools.EmbeddedOptions; ports are written as the strings of their numbers
EmbeddedOptions(inProcessOnly, port, enableJetStream) ==
    [isNil |-> FALSE, InProcessOnly |-> inProcessOnly, Host |-> "127.0.0.1",
     Port |-> port, EnableJetStream |-> enableJetStream]
NilOptions ==
    [isNil |-> TRUE, InProcessOnly |-> FALSE, Host |-> "", Port |-> "0",
     EnableJetStream |-> FALSE]
NoServer ==
    [DontListen |-> FALSE, Host |-> "", Port |-> "0", JetStream |-> FALSE,
     running |-> FALSE]
\* the nil *EmbeddedServer
NilEmbedded ==
    [isNil |-> TRUE, server |-> NoServer, nc |-> "nil", js |-> "nil", opts |-> NilOptions]
NoEmbCall ==
    [start |-> "none", op |-> "none", url |-> EmptyString, conn |-> "nil",
     js |-> "nil", err |-> NoError]

\* the inboxes nats.NewInbox() hands out, one per call
Inboxes == 1..MaxCalls
NoConn == [status |-> "connected", subs |-> EmptyMap]
NoReq ==
    [pc |-> "idle", calls |-> 0, inbox |-> 0, subject |-> EmptyString,
     payload |-> "none", ret |-> NoError, published |-> FALSE,
     subscribedFirst |-> FALSE, handled |-> [i \in Inboxes |-> 0]]

\* the packages beside the registry, the service and the stores
InitTools ==
    /\ embedded = NilEmbedded
    /\ lastEmb = NoEmbCall
    /\ natsConn = NoConn
    /\ req = NoReq
    /\ replies = << >>

Init ==
    /\ InitTools
    /\ stream = EmptyStream
    /\ destkv = JetStreamKV(EmptyMap, FALSE)
    /\ watcher = NoWatcher
    /\ syncCtx = "live"
    /\ sync = NoSync
    /\ memkv = MemoryKV(EmptyMap, TRUE)
    /\ jskv = JetStreamKV(EmptyMap, TRUE)
    /\ kvmu = Unlocked
    /\ kvpc = [t \in KvGoroutines |-> "idle"]
    /\ kvloc = [t \in KvGoroutines |-> NoKvLocals]
    /\ lastKv = NoKvCall
    /\ types = EmptyMap
    /\ rtypes = EmptyMap
    /\ aliases = EmptyMap
    /\ last = NoCall
    /\ mu = Unlocked
    /\ pc = [t \in Goroutines |-> "idle"]
    /\ loc = [t \in Goroutines |-> NoLocals]
    /\ service = NilService
    /\ endpoints = << >>
    /\ attached = [e \in Endpointers |-> NilService]
    /\ lastSvc = NoSvcCall

\* ------------------------------------------------------------------ registration
\* registerWithOptions without its check of the name map: a second registration
\* of a name replaces the first
registerWithOptions_NoExistsCheck(r, name0, rt, metadata, validate) ==
    LET name == IF name0 = EmptyName THEN inferTypeName(rt) ELSE name0
    IN  IF name0 = EmptyName /\ ~CanElem(rt) THEN [err |-> "panic", reg |-> r]
        ELSE IF ~nameRegexMatch(name) THEN [err |-> "ErrTypeNotValid", reg |-> r]
        ELSE IF Kind(rt) # "ptr" \/ Kind(Elem(rt)) # "struct"
            THEN [err |-> "ErrTypeNotValid", reg |-> r]
        ELSE [err |-> "nil",
              reg |-> [types |-> Put(r.types, name, TypeInfo(rt, metadata, validate)),
                       rtypes |-> Put(r.rtypes, normalizeType(rt), name),
                       aliases |-> r.aliases]]

\* registerWithOptions: [err, reg]; "panic" is a panic that leaves the function
registerWithOptions(r, name0, rt, metadata, validate) ==
    LET name == IF name0 = EmptyName THEN inferTypeName(rt) ELSE name0
    IN  IF name0 = EmptyName /\ ~CanElem(rt) THEN [err |-> "panic", reg |-> r]
        ELSE IF ~nameRegexMatch(name) THEN [err |-> "ErrTypeNotValid", reg |-> r]
        ELSE IF Kind(rt) # "ptr" \/ Kind(Elem(rt)) # "struct"
            THEN [err |-> "ErrTypeNotValid", reg |-> r]
        ELSE IF name \in DOMAIN r.types THEN [err |-> "ErrTypeAlreadyExists", reg |-> r]
        ELSE [err |-> "nil",
              reg |-> Reg(Put(r.types, name, TypeInfo(rt, metadata, validate)),
                          Put(r.rtypes, normalizeType(rt), name),
                          r.aliases)]

Store(reg) ==
    /\ types' = reg.types
    /\ rtypes' = reg.rtypes
    /\ aliases' = reg.aliases

\* Register[T](r, name)
Register ==
    \E T \in {"User", "string"}, name \in Names :
        LET res == registerWithOptions(Cur, name, PtrTo(T), "nil", "nil")
        IN  /\ T = "string" => name = <<"a">>
            /\ Store(res.reg)
            /\ last' = Call("Register", EmptyName, res.err)
            /\ UNCHANGED <<conc, others>>

\* RegisterWithMetadata[T](r, name, metadata)
RegisterWithMetadata ==
    \E T \in {"Order"}, name \in ValidNames \cup {EmptyName} :
        LET res == registerWithOptions(Cur, name, PtrTo(T), "v1", "nil")
        IN  /\ Store(res.reg)
            /\ last' = Call("RegisterWithMetadata", EmptyName, res.err)
            /\ UNCHANGED <<conc, others>>

\* RegisterWithValidation[T](r, name, validate)
RegisterWithValidation ==
    \E T \in {"User"}, name \in ValidNames :
        LET res == registerWithOptions(Cur, name, PtrTo(T), "nil", "ageNotNegative")
        IN  /\ Store(res.reg)
            /\ last' = Call("RegisterWithValidation", EmptyName, res.err)
            /\ UNCHANGED <<conc, others>>

addAlias_NoRegexCheck(r, alias, primaryName) ==
    IF primaryName \notin DOMAIN r.types THEN [err |-> "ErrTypeNotRegistered", reg |-> r]
    ELSE IF alias \in DOMAIN r.aliases THEN [err |-> "ErrTypeAlreadyExists", reg |-> r]
    ELSE IF alias \in DOMAIN r.types THEN [err |-> "ErrTypeAlreadyExists", reg |-> r]
    ELSE [err |-> "nil",
          reg |-> Reg([r.types EXCEPT ![primaryName].Aliases = Append(@, alias)],
                      r.rtypes,
                      Put(r.aliases, alias, primaryName))]

\* AddAlias without the append to the primary's TypeInfo.Aliases
addAlias_NoAppend(r, alias, primaryName) ==
    IF ~nameRegexMatch(alias) THEN [err |-> "ErrTypeNotValid", reg |-> r]
    ELSE IF primaryName \notin DOMAIN r.types THEN [err |-> "ErrTypeNotRegistered", reg |-> r]
    ELSE IF alias \in DOMAIN r.aliases THEN [err |-> "ErrTypeAlreadyExists", reg |-> r]
    ELSE IF alias \in DOMAIN r.types THEN [err |-> "ErrTypeAlreadyExists", reg |-> r]
    ELSE [err |-> "nil", reg |-> Reg(r.types, r.rtypes, Put(r.aliases, alias, primaryName))]

\* AddAlias(alias, primaryName)
addAlias(r, alias, primaryName) ==
    IF ~nameRegexMatch(alias) THEN [err |-> "ErrTypeNotValid", reg |-> r]
    ELSE IF primaryName \notin DOMAIN r.types THEN [err |-> "ErrTypeNotRegistered", reg |-> r]
    ELSE IF alias \in DOMAIN r.aliases THEN [err |-> "ErrTypeAlreadyExists", reg |-> r]
    ELSE IF alias \in DOMAIN r.types THEN [err |-> "ErrTypeAlreadyExists", reg |-> r]
    ELSE [err |-> "nil",
          reg |-> Reg([r.types EXCEPT ![primaryName].Aliases = Append(@, alias)],
                      r.rtypes,
                      Put(r.aliases, alias, primaryName))]

AddAlias ==
    \E alias \in ValidNames \cup {BadName}, primaryName \in ValidNames :
        LET res == addAlias(Cur, alias, primaryName)
        IN  /\ Store(res.reg)
            /\ last' = Call("AddAlias", primaryName, res.err)
            /\ UNCHANGED <<conc, others>>

\* ------------------------------------------------------------------ batch
\* TypeEntry values handed to RegisterBatch; a Type may be any reflect.Type
TypeEntry(name, rt) ==
    [Name |-> name, Type |-> rt,
     Metadata |-> IF rt = "*Order" THEN "v1" ELSE "nil",
     Validate |-> IF rt = "*User" THEN "ageNotNegative" ELSE "nil"]
TypeEntries ==
    {TypeEntry(OrderName, "*User"), TypeEntry(EmptyName, "*Order"), TypeEntry(BadName, "*User"),
     TypeEntry(EmptyName, "User")}
Batches == UNION {[1..k -> TypeEntries] : k \in 0..MaxBatch}

entryName(entry) == IF entry.Name = EmptyName THEN inferTypeName(entry.Type) ELSE entry.Name

\* the first loop: the error of the first entry that fails, "nil" if none does
RECURSIVE batchValidate(_, _, _)
batchValidate(r, entries, i) ==
    IF i > Len(entries) THEN "nil"
    ELSE LET entry == entries[i]
             rt == entry.Type
         IN  IF entry.Name = EmptyName /\ ~CanElem(rt) THEN "panic"
             ELSE IF ~nameRegexMatch(entryName(entry)) THEN "ErrTypeNotValid"
             ELSE IF Kind(rt) # "ptr" \/ Kind(Elem(rt)) # "struct" THEN "ErrTypeNotValid"
             ELSE IF entryName(entry) \in DOMAIN r.types THEN "ErrTypeAlreadyExists"
             ELSE batchValidate(r, entries, i + 1)

\* the second loop: every entry written in order
RECURSIVE batchStore(_, _, _)
batchStore(r, entries, i) ==
    IF i > Len(entries) THEN r
    ELSE LET entry == entries[i]
             name == entryName(entry)
             info == TypeInfo(entry.Type, entry.Metadata, entry.Validate)
         IN  batchStore(Reg(Put(r.types, name, info),
                            Put(r.rtypes, normalizeType(entry.Type), name),
                            r.aliases),
                        entries, i + 1)

registerBatch(r, entries) ==
    LET err == batchValidate(r, entries, 1)
    IN  IF err # "nil" THEN [err |-> err, reg |-> r]
        ELSE [err |-> "nil", reg |-> batchStore(r, entries, 1)]

RegisterBatch ==
    \E entries \in Batches :
        LET res == registerBatch(Cur, entries)
        IN  /\ Store(res.reg)
            /\ last' = Call("RegisterBatch", EmptyName, res.err)
            /\ UNCHANGED <<conc, others>>

\* ------------------------------------------------------------------ lookup
resolveName(r, name) == IF name \in DOMAIN r.aliases THEN r.aliases[name] ELSE name

\* ------------------------------------------------------------------ removal
RECURSIVE deleteAliases(_, _, _)
deleteAliases(al, list, i) ==
    IF i > Len(list) THEN al ELSE deleteAliases(Del(al, list[i]), list, i + 1)

\* Unregister without the loop over info.Aliases
unregister_KeepAliases(r, name0) ==
    LET name == resolveName(r, name0)
    IN  IF name \notin DOMAIN r.types THEN [err |-> "ErrTypeNotRegistered", reg |-> r]
        ELSE [err |-> "nil",
              reg |-> Reg(Del(r.types, name),
                          Del(r.rtypes, normalizeType(r.types[name].Type)),
                          r.aliases)]

unregister(r, name0) ==
    LET name == resolveName(r, name0)
    IN  IF name \notin DOMAIN r.types THEN [err |-> "ErrTypeNotRegistered", reg |-> r]
        ELSE LET info == r.types[name]
             IN  [err |-> "nil",
                  reg |-> Reg(Del(r.types, name),
                              Del(r.rtypes, normalizeType(info.Type)),
                              deleteAliases(r.aliases, info.Aliases, 1))]

Unregister ==
    \E name \in ValidNames :
        LET res == unregister(Cur, name)
        IN  /\ Store(res.reg)
            /\ last' = Call("Unregister", name, res.err)
            /\ UNCHANGED <<conc, others>>

clear(r) == [err |-> "nil", reg |-> Reg(EmptyMap, EmptyMap, EmptyMap)]

Clear ==
    /\ Store(clear(Cur).reg)
    /\ last' = Call("Clear", EmptyName, "nil")
    /\ UNCHANGED <<conc, others>>

\* ------------------------------------------------------------------ encoding/json
\* The struct types' fields, in declaration order, and each field's Go kind.
FieldsOf(T) == IF T = "User" THEN {"Name", "Age"} ELSE IF T = "Order" THEN {"ID"} ELSE {}
FieldKind(f) == IF f = "Age" THEN "num" ELSE "str"
ZeroOf(f) == IF FieldKind(f) = "num" THEN 0 ELSE ""

\* A Go value: its dynamic type (a pointer to a struct, or a struct) and its fields.
Value(rt, fields) == [type |-> rt, fields |-> fields]
NilValue == Value("nil", EmptyMap)
Zero(T) == [f \in FieldsOf(T) |-> ZeroOf(f)]
\* reflect.New(T).Interface(): a pointer to the zero value of T
reflectNew(T) == Value(PtrTo(T), Zero(T))

\* A JSON document: invalid bytes, or an object of tagged scalars.
JStr(x) == [k |-> "str", s |-> x, n |-> 0]
JNum(x) == [k |-> "num", s |-> "", n |-> x]
JsonObject(obj) == [valid |-> TRUE, obj |-> obj]
InvalidJson == [valid |-> FALSE, obj |-> EmptyMap]

\* json.Marshal of a struct or of a pointer to one: one member per exported field
jsonMarshal(v) ==
    JsonObject([f \in DOMAIN v.fields |->
                   IF FieldKind(f) = "num" THEN JNum(v.fields[f]) ELSE JStr(v.fields[f])])

\* json.Unmarshal(data, v) with v a pointer to a zero T: members that name a field
\* are decoded into it, other members are skipped, a member of the wrong JSON kind
\* is an error
jsonUnmarshal(data, T) ==
    IF ~data.valid THEN [err |-> TRUE, val |-> NilValue]
    ELSE IF \E f \in FieldsOf(T) \cap DOMAIN data.obj : data.obj[f].k # FieldKind(f)
        THEN [err |-> TRUE, val |-> NilValue]
    ELSE [err |-> FALSE,
          val |-> Value(PtrTo(T),
                        [f \in FieldsOf(T) |->
                            IF f \in DOMAIN data.obj
                            THEN IF FieldKind(f) = "num" THEN data.obj[f].n ELSE data.obj[f].s
                            ELSE ZeroOf(f)])]

\* json.Marshal(&TypedData{Type, Data}) and json.Unmarshal(b, &typed)
TypedBytes(name, data) == [valid |-> TRUE, type |-> name, data |-> data]
InvalidBytes == [valid |-> FALSE, type |-> EmptyName, data |-> InvalidJson]
\* the bytes `{}`: no type member, no data member
EmptyObjectBytes == [valid |-> TRUE, type |-> EmptyName, data |-> InvalidJson]

\* the validation functions: "ageNotNegative" is the one of TestValidationHook
validateOk(validate, v) ==
    IF validate = "nil" THEN TRUE
    ELSE v.type = "*User" /\ v.fields["Age"] >= 0

\* ------------------------------------------------------------------ lookup operations
Ret(err, val) == [err |-> err, val |-> val]

\* Registry.New(name)
New(r, name0) ==
    LET name == resolveName(r, name0)
    IN  IF name \notin DOMAIN r.types THEN Ret("ErrTypeNotRegistered", NilValue)
        ELSE Ret("nil", reflectNew(Elem(r.types[name].Type)))

\* Registry.NameOf(v)
NameOf(r, v) ==
    IF v = NilValue THEN Ret("ErrTypeNotRegistered", EmptyName)
    ELSE LET rt == normalizeType(v.type)
         IN  IF rt \notin DOMAIN r.rtypes THEN Ret("ErrTypeNotRegistered", EmptyName)
             ELSE Ret("nil", r.rtypes[rt])

\* Registry.Registered()
Registered(r) == DOMAIN r.types

\* Registry.GetTypeInfo(name)
GetTypeInfo(r, name0) ==
    LET name == resolveName(r, name0)
    IN  IF name \notin DOMAIN r.types
        THEN Ret("ErrTypeNotRegistered", TypeInfo("nil", "nil", "nil"))
        ELSE Ret("nil", r.types[name])

\* Registry.UnmarshalType(name, data)
UnmarshalType(r, name0, data) ==
    LET name == resolveName(r, name0)
    IN  IF name \notin DOMAIN r.types THEN Ret("ErrTypeNotRegistered", NilValue)
        ELSE LET info == r.types[name]
                 dec == jsonUnmarshal(data, Elem(info.Type))
             IN  IF dec.err THEN Ret("ErrUnmarshal", NilValue)
                 ELSE IF info.Validate # "nil" /\ ~validateOk(info.Validate, dec.val)
                     THEN Ret("ErrUnmarshal", NilValue)
                 ELSE Ret("nil", dec.val)

\* Registry.Marshal(v)
Marshal(r, v) ==
    LET n == NameOf(r, v)
    IN  IF n.err # "nil" THEN Ret(n.err, InvalidBytes)
        ELSE Ret("nil", TypedBytes(n.val, jsonMarshal(v)))

\* Registry.Unmarshal(b)
Unmarshal(r, b) ==
    IF ~b.valid THEN Ret("ErrUnmarshal", NilValue)
    ELSE IF b.type = EmptyName THEN Ret("ErrUnmarshal", NilValue)
    ELSE UnmarshalType(r, b.type, b.data)

\* Registry.MarshalTypedData(v): the TypedData, not yet encoded
MarshalTypedData(r, v) == Marshal(r, v)

\* Registry.UnmarshalTypedData(td)
UnmarshalTypedData(r, td) ==
    IF td.type = EmptyName THEN Ret("ErrUnmarshal", NilValue)
    ELSE UnmarshalType(r, td.type, td.data)

\* ------------------------------------------------------------------ lookup calls
\* the values and documents the callers use
UserOf(name, age) == Value("*User", [f \in FieldsOf("User") |-> IF f = "Age" THEN age ELSE name])
OrderOf(id) == Value("*Order", [f \in FieldsOf("Order") |-> id])
Values == {UserOf("n", 1), UserOf("n", -1), OrderOf("i")}
Datas == {jsonMarshal(v) : v \in Values} \cup {InvalidJson}
Bytes == {TypedBytes(n, jsonMarshal(v)) : n \in ValidNames, v \in Values}
             \cup {InvalidBytes, EmptyObjectBytes}
\* the documents the call actions hand in
CallBytes == {TypedBytes(n, jsonMarshal(UserOf("n", -1))) : n \in ValidNames}
                 \cup {InvalidBytes, EmptyObjectBytes}

registry == <<types, rtypes, aliases>>

CallNew ==
    \E name \in ValidNames :
        /\ last' = Call("New", EmptyName, New(Cur, name).err)
        /\ UNCHANGED <<registry, conc, others>>

CallNameOf ==
    \E v \in {UserOf("n", 1), OrderOf("i"), NilValue} :
        /\ last' = Call("NameOf", EmptyName, NameOf(Cur, v).err)
        /\ UNCHANGED <<registry, conc, others>>

CallGetTypeInfo ==
    \E name \in ValidNames :
        /\ last' = Call("GetTypeInfo", EmptyName, GetTypeInfo(Cur, name).err)
        /\ UNCHANGED <<registry, conc, others>>

CallMarshal ==
    \E v \in {UserOf("n", -1), OrderOf("i")} :
        /\ last' = Call("Marshal", EmptyName, Marshal(Cur, v).err)
        /\ UNCHANGED <<registry, conc, others>>

CallUnmarshalType ==
    \E name \in ValidNames, data \in {jsonMarshal(UserOf("n", -1)), InvalidJson} :
        /\ last' = Call("UnmarshalType", EmptyName, UnmarshalType(Cur, name, data).err)
        /\ UNCHANGED <<registry, conc, others>>

CallUnmarshal ==
    \E b \in CallBytes :
        /\ last' = Call("Unmarshal", EmptyName, Unmarshal(Cur, b).err)
        /\ UNCHANGED <<registry, conc, others>>

CallUnmarshalTypedData ==
    \E b \in {TypedBytes(UserName, jsonMarshal(UserOf("n", -1))), EmptyObjectBytes} :
        /\ last' = Call("UnmarshalTypedData", EmptyName, UnmarshalTypedData(Cur, b).err)
        /\ UNCHANGED <<registry, conc, others>>

Next ==
    \/ Register
    \/ RegisterWithMetadata
    \/ RegisterWithValidation
    \/ AddAlias
    \/ RegisterBatch
    \/ Unregister
    \/ Clear
    \/ CallNew
    \/ CallNameOf
    \/ CallGetTypeInfo
    \/ CallMarshal
    \/ CallUnmarshalType
    \/ CallUnmarshal
    \/ CallUnmarshalTypedData

Spec == Init /\ [][Next]_vars

\* ================================================================== goroutines
\* The same operations, run by concurrent goroutines one map access at a time,
\* between the Lock/RLock and the Unlock/RUnlock the source puts around them.
WriterOps == {"Register", "AddAlias", "RegisterBatch", "Unregister", "Clear"}
ReaderOps == {"New", "NameOf", "Registered", "GetTypeInfo", "FindByNamespace", "UnmarshalType"}
ConcNames == {<<"a">>, UserName}
ConcBatch == <<TypeEntry(<<"a">>, "*User"), TypeEntry(EmptyName, "*User")>>
ConcData == jsonMarshal(UserOf("n", -1))
Namespace == <<"t">>

HasPrefix(str, prefix) ==
    Len(str) >= Len(prefix) /\ SubSeq(str, 1, Len(prefix)) = prefix

\* Registry.FindByNamespace(namespace): the names found, as a set
FindByNamespace(r, namespace) ==
    LET prefix == namespace \o <<".">>
    IN  {n \in DOMAIN r.types : HasPrefix(n, prefix) \/ n = namespace}
            \cup {a \in DOMAIN r.aliases : HasPrefix(a, prefix) \/ a = namespace}

NoInfo == TypeInfo("nil", "nil", "nil")
Locals(op, name, primary) ==
    [op |-> op, arg |-> name, name |-> name, primary |-> primary, i |-> 1, info |-> NoInfo,
     err |-> "nil", val |-> NilValue, names |-> {}, snap |-> Reg(EmptyMap, EmptyMap, EmptyMap),
     held |-> FALSE, raced |-> FALSE]

Invocations ==
    {Locals("Register", n, EmptyName) : n \in {<<"a">>, EmptyName}}
        \cup {Locals("AddAlias", al, p) : al \in ConcNames, p \in ConcNames}
        \cup {Locals("RegisterBatch", EmptyName, EmptyName), Locals("Clear", EmptyName, EmptyName),
              Locals("NameOf", EmptyName, EmptyName), Locals("Registered", EmptyName, EmptyName),
              Locals("FindByNamespace", Namespace, EmptyName)}
        \cup {Locals(op, n, EmptyName) :
                  op \in {"Unregister", "New", "GetTypeInfo", "UnmarshalType"}, n \in ConcNames}

FirstPc(op) ==
    CASE op = "Register" -> "check"
      [] op = "AddAlias" -> "aliasCheck"
      [] op = "RegisterBatch" -> "batchCheck"
      [] op = "Clear" -> "clearTypes"
      [] op = "NameOf" -> "reverse"
      [] op = "Registered" -> "keys"
      [] op = "FindByNamespace" -> "scanTypes"
      [] OTHER -> "resolve"

\* sync.RWMutex: Lock waits for the writer and the readers to leave, RLock for
\* the writer
CanLock(m) == m.w = "none" /\ m.r = {}
CanRLock(m) == m.w = "none"

Goto(t, p) == pc' = [pc EXCEPT ![t] = p]

\* GetTypeInfo returns the *TypeInfo the name map holds, not a copy. A caller
\* that has it and has not read it yet: held tells that the map still holds
\* that TypeInfo, raced that it was written since the caller left the lock.
Holds(u, names) == pc[u] = "use" /\ loc[u].held /\ loc[u].name \in names
Dropped(names) ==
    [u \in Goroutines |-> IF Holds(u, names) THEN [loc[u] EXCEPT !.held = FALSE] ELSE loc[u]]
Written(name) ==
    [u \in Goroutines |-> IF Holds(u, {name}) THEN [loc[u] EXCEPT !.raced = TRUE] ELSE loc[u]]
TornSlice == <<<<"?">>>>
Fail(t, err) == loc' = [loc EXCEPT ![t].err = err] /\ Goto(t, "unlock")

\* a goroutine calls an operation
Invoke(t) ==
    /\ pc[t] = "idle"
    /\ \E l \in Invocations : loc' = [loc EXCEPT ![t] = l]
    /\ Goto(t, "lock")
    /\ UNCHANGED <<registry, last, others, mu>>

\* r.mu.Lock() / r.mu.RLock()
Acquire(t) ==
    /\ pc[t] = "lock"
    /\ IF loc[t].op \in WriterOps
       THEN CanLock(mu) /\ mu' = [mu EXCEPT !.w = t]
       ELSE CanRLock(mu) /\ mu' = [mu EXCEPT !.r = @ \cup {t}]
    /\ loc' = [loc EXCEPT ![t].snap = Cur]
    /\ Goto(t, FirstPc(loc[t].op))
    /\ UNCHANGED <<registry, last, others>>

\* registerWithOptions: the name, the checks, the look at r.types
RegisterCheck(t) ==
    /\ pc[t] = "check"
    /\ LET rt == "*User"
           name == IF loc[t].name = EmptyName THEN inferTypeName(rt) ELSE loc[t].name
       IN  IF ~nameRegexMatch(name) \/ Kind(rt) # "ptr" \/ Kind(Elem(rt)) # "struct"
           THEN Fail(t, "ErrTypeNotValid")
           ELSE IF name \in DOMAIN types THEN Fail(t, "ErrTypeAlreadyExists")
           ELSE /\ loc' = [loc EXCEPT ![t].name = name, ![t].info = TypeInfo(rt, "nil", "nil")]
                /\ Goto(t, "putTypes")
    /\ UNCHANGED <<registry, last, others, mu>>

\* r.types[name] = info
PutTypes(t) ==
    /\ pc[t] = "putTypes"
    /\ types' = Put(types, loc[t].name, loc[t].info)
    /\ Goto(t, "putRtypes")
    /\ UNCHANGED <<rtypes, aliases, last, others, mu, loc>>

\* r.rtypes[normalizeType(rt)] = name
PutRtypes(t) ==
    /\ pc[t] = "putRtypes"
    /\ rtypes' = Put(rtypes, normalizeType(loc[t].info.Type), loc[t].name)
    /\ Goto(t, "unlock")
    /\ UNCHANGED <<types, aliases, last, others, mu, loc>>

\* AddAlias: the checks
AliasCheck(t) ==
    /\ pc[t] = "aliasCheck"
    /\ IF ~nameRegexMatch(loc[t].name) THEN Fail(t, "ErrTypeNotValid")
       ELSE IF loc[t].primary \notin DOMAIN types THEN Fail(t, "ErrTypeNotRegistered")
       ELSE IF loc[t].name \in DOMAIN aliases THEN Fail(t, "ErrTypeAlreadyExists")
       ELSE IF loc[t].name \in DOMAIN types THEN Fail(t, "ErrTypeAlreadyExists")
       ELSE Goto(t, "putAlias") /\ UNCHANGED loc
    /\ UNCHANGED <<registry, last, others, mu>>

\* r.aliases[alias] = primaryName
PutAlias(t) ==
    /\ pc[t] = "putAlias"
    /\ aliases' = Put(aliases, loc[t].name, loc[t].primary)
    /\ Goto(t, "appendAlias")
    /\ UNCHANGED <<types, rtypes, last, others, mu, loc>>

\* info.Aliases = append(info.Aliases, alias), on the TypeInfo the check found
AppendAlias(t) ==
    /\ pc[t] = "appendAlias"
    /\ types' = IF loc[t].primary \in DOMAIN types
                THEN [types EXCEPT ![loc[t].primary].Aliases = Append(@, loc[t].name)]
                ELSE types
    /\ loc' = Written(loc[t].primary)
    /\ Goto(t, "unlock")
    /\ UNCHANGED <<rtypes, aliases, last, others, mu>>

\* RegisterBatch, first loop: one entry
BatchCheck(t) ==
    /\ pc[t] = "batchCheck"
    /\ LET i == loc[t].i
       IN  IF i > Len(ConcBatch)
           THEN loc' = [loc EXCEPT ![t].i = 1] /\ Goto(t, "batchPutTypes")
           ELSE LET entry == ConcBatch[i]
                IN  IF entry.Name = EmptyName /\ ~CanElem(entry.Type) THEN Fail(t, "panic")
                    ELSE IF ~nameRegexMatch(entryName(entry))
                             \/ Kind(entry.Type) # "ptr" \/ Kind(Elem(entry.Type)) # "struct"
                        THEN Fail(t, "ErrTypeNotValid")
                    ELSE IF entryName(entry) \in DOMAIN types
                        THEN Fail(t, "ErrTypeAlreadyExists")
                    ELSE loc' = [loc EXCEPT ![t].i = i + 1] /\ UNCHANGED pc
    /\ UNCHANGED <<registry, last, others, mu>>

\* RegisterBatch, second loop: r.types[name] = info
BatchPutTypes(t) ==
    /\ pc[t] = "batchPutTypes"
    /\ LET i == loc[t].i
       IN  IF i > Len(ConcBatch) THEN Goto(t, "unlock") /\ UNCHANGED types
           ELSE /\ types' = Put(types, entryName(ConcBatch[i]),
                                TypeInfo(ConcBatch[i].Type, ConcBatch[i].Metadata,
                                         ConcBatch[i].Validate))
                /\ Goto(t, "batchPutRtypes")
    /\ UNCHANGED <<rtypes, aliases, last, others, mu, loc>>

\* RegisterBatch, second loop: r.rtypes[normalizeType(rt)] = name
BatchPutRtypes(t) ==
    /\ pc[t] = "batchPutRtypes"
    /\ rtypes' = Put(rtypes, normalizeType(ConcBatch[loc[t].i].Type), entryName(ConcBatch[loc[t].i]))
    /\ loc' = [loc EXCEPT ![t].i = @ + 1]
    /\ Goto(t, "batchPutTypes")
    /\ UNCHANGED <<types, aliases, last, others, mu>>

\* name = r.resolveName(name)
Resolve(t) ==
    /\ pc[t] = "resolve"
    /\ loc' = [loc EXCEPT ![t].name = resolveName(Cur, @)]
    /\ Goto(t, "lookup")
    /\ UNCHANGED <<registry, last, others, mu>>

\* info, ok := r.types[name], and what New and GetTypeInfo return
Lookup(t) ==
    /\ pc[t] = "lookup"
    /\ IF loc[t].name \notin DOMAIN types THEN Fail(t, "ErrTypeNotRegistered")
       ELSE LET info == types[loc[t].name]
            IN  /\ loc' = [loc EXCEPT ![t].info = info,
                                      ![t].val = IF loc[t].op = "New"
                                                 THEN reflectNew(Elem(info.Type))
                                                 ELSE IF loc[t].op = "GetTypeInfo" THEN info
                                                 ELSE @]
                /\ Goto(t, IF loc[t].op = "Unregister" THEN "deleteAlias" ELSE "unlock")
    /\ UNCHANGED <<registry, last, others, mu>>

\* Unregister: delete(r.aliases, alias), one alias of info.Aliases
DeleteAlias(t) ==
    /\ pc[t] = "deleteAlias"
    /\ LET i == loc[t].i
       IN  IF i > Len(loc[t].info.Aliases)
           THEN Goto(t, "deleteTypes") /\ UNCHANGED <<aliases, loc>>
           ELSE /\ aliases' = Del(aliases, loc[t].info.Aliases[i])
                /\ loc' = [loc EXCEPT ![t].i = i + 1]
                /\ UNCHANGED pc
    /\ UNCHANGED <<types, rtypes, last, others, mu>>

\* delete(r.types, name)
DeleteTypes(t) ==
    /\ pc[t] = "deleteTypes"
    /\ types' = Del(types, loc[t].name)
    /\ loc' = Dropped({loc[t].name})
    /\ Goto(t, "deleteRtypes")
    /\ UNCHANGED <<rtypes, aliases, last, others, mu>>

\* delete(r.rtypes, normalizeType(info.Type))
DeleteRtypes(t) ==
    /\ pc[t] = "deleteRtypes"
    /\ rtypes' = Del(rtypes, normalizeType(loc[t].info.Type))
    /\ Goto(t, "unlock")
    /\ UNCHANGED <<types, aliases, last, others, mu, loc>>

\* Clear: the three maps are replaced one after the other
ClearTypes(t) ==
    /\ pc[t] = "clearTypes"
    /\ types' = EmptyMap
    /\ loc' = Dropped(DOMAIN types)
    /\ Goto(t, "clearRtypes")
    /\ UNCHANGED <<rtypes, aliases, last, others, mu>>

ClearRtypes(t) ==
    /\ pc[t] = "clearRtypes"
    /\ rtypes' = EmptyMap
    /\ Goto(t, "clearAliases")
    /\ UNCHANGED <<types, aliases, last, others, mu, loc>>

ClearAliases(t) ==
    /\ pc[t] = "clearAliases"
    /\ aliases' = EmptyMap
    /\ Goto(t, "unlock")
    /\ UNCHANGED <<types, rtypes, last, others, mu, loc>>

\* NameOf: name, ok := r.rtypes[rt], for a *User
Reverse(t) ==
    /\ pc[t] = "reverse"
    /\ LET rt == normalizeType("*User")
       IN  IF rt \notin DOMAIN rtypes THEN Fail(t, "ErrTypeNotRegistered")
           ELSE loc' = [loc EXCEPT ![t].names = {rtypes[rt]}] /\ Goto(t, "unlock")
    /\ UNCHANGED <<registry, last, others, mu>>

\* Registered: the loop over r.types
Keys(t) ==
    /\ pc[t] = "keys"
    /\ loc' = [loc EXCEPT ![t].names = DOMAIN types]
    /\ Goto(t, "unlock")
    /\ UNCHANGED <<registry, last, others, mu>>

\* FindByNamespace: the loop over r.types
ScanTypes(t) ==
    /\ pc[t] = "scanTypes"
    /\ loc' = [loc EXCEPT ![t].names =
                  {n \in DOMAIN types :
                       HasPrefix(n, loc[t].name \o <<".">>) \/ n = loc[t].name}]
    /\ Goto(t, "scanAliases")
    /\ UNCHANGED <<registry, last, others, mu>>

\* FindByNamespace: the loop over r.aliases
ScanAliases(t) ==
    /\ pc[t] = "scanAliases"
    /\ loc' = [loc EXCEPT ![t].names = @ \cup
                  {a \in DOMAIN aliases :
                       HasPrefix(a, loc[t].name \o <<".">>) \/ a = loc[t].name}]
    /\ Goto(t, "unlock")
    /\ UNCHANGED <<registry, last, others, mu>>

\* r.mu.Unlock() / r.mu.RUnlock(); UnmarshalType goes on without the lock, and
\* so does the caller that GetTypeInfo gave a *TypeInfo
Release(t) ==
    /\ pc[t] = "unlock"
    /\ mu' = IF loc[t].op \in WriterOps THEN [mu EXCEPT !.w = "none"]
             ELSE [mu EXCEPT !.r = @ \ {t}]
    /\ IF loc[t].op = "UnmarshalType"
       THEN Goto(t, "decode") /\ UNCHANGED loc
       ELSE IF loc[t].op = "GetTypeInfo" /\ loc[t].err = "nil"
           THEN Goto(t, "use") /\ loc' = [loc EXCEPT ![t].held = TRUE]
       ELSE Goto(t, "idle") /\ loc' = [loc EXCEPT ![t] = NoLocals]
    /\ UNCHANGED <<registry, last, others>>

\* the caller reads info.Aliases of the *TypeInfo it was given; a read that no
\* lock orders with AddAlias's write is a data race: the list before the
\* append, the list after it, or a slice header half written
Use(t) ==
    /\ pc[t] = "use"
    /\ \E read \in IF loc[t].raced
                   THEN {loc[t].info.Aliases, TornSlice}
                            \cup (IF loc[t].held THEN {types[loc[t].name].Aliases} ELSE {})
                   ELSE {loc[t].info.Aliases} :
           loc' = [loc EXCEPT ![t].val = read]
    /\ Goto(t, "return")
    /\ UNCHANGED <<registry, last, others, mu>>

\* UnmarshalType after RUnlock: reflect.New, json.Unmarshal, info.Validate
Decode(t) ==
    /\ pc[t] = "decode"
    /\ IF loc[t].err # "nil" THEN UNCHANGED loc
       ELSE LET dec == jsonUnmarshal(ConcData, Elem(loc[t].info.Type))
            IN  IF dec.err THEN loc' = [loc EXCEPT ![t].err = "ErrUnmarshal"]
                ELSE IF loc[t].info.Validate # "nil" /\ ~validateOk(loc[t].info.Validate, dec.val)
                    THEN loc' = [loc EXCEPT ![t].err = "ErrUnmarshal"]
                ELSE loc' = [loc EXCEPT ![t].val = dec.val]
    /\ Goto(t, "return")
    /\ UNCHANGED <<registry, last, others, mu>>

Return(t) ==
    /\ pc[t] = "return"
    /\ loc' = [loc EXCEPT ![t] = NoLocals]
    /\ Goto(t, "idle")
    /\ UNCHANGED <<registry, last, others, mu>>

NextConc ==
    \E t \in Goroutines :
        \/ Invoke(t)
        \/ Acquire(t)
        \/ RegisterCheck(t)
        \/ PutTypes(t)
        \/ PutRtypes(t)
        \/ AliasCheck(t)
        \/ PutAlias(t)
        \/ AppendAlias(t)
        \/ BatchCheck(t)
        \/ BatchPutTypes(t)
        \/ BatchPutRtypes(t)
        \/ Resolve(t)
        \/ Lookup(t)
        \/ DeleteAlias(t)
        \/ DeleteTypes(t)
        \/ DeleteRtypes(t)
        \/ ClearTypes(t)
        \/ ClearRtypes(t)
        \/ ClearAliases(t)
        \/ Reverse(t)
        \/ Keys(t)
        \/ ScanTypes(t)
        \/ ScanAliases(t)
        \/ Release(t)
        \/ Use(t)
        \/ Decode(t)
        \/ Return(t)

SpecConc == Init /\ [][NextConc]_vars

\* ================================================================== service
\* ServiceConfig.Validate
Validate(sc) ==
    IF sc.Ctx = "nil" THEN <<"missing context">>
    ELSE IF sc.Nc = "nil" THEN <<"nats connection required">>
    ELSE IF sc.Logger = "nil" THEN <<"logger required">>
    ELSE IF sc.Name = EmptyString THEN <<"service name required">>
    ELSE IF sc.Version = EmptyString THEN <<"service version required">>
    ELSE NoError

\* micro.AddService(nc, microConfig): refused on a closed connection
microAddService(nc) == IF nc = "closed" THEN <<"nats: connection closed">> ELSE NoError

startService_NoValidate(config) ==
    LET err == microAddService(config.Nc)
    IN  [err |-> err,
         svc |-> ServiceOf(TRUE, config, IF err = NoError THEN "running" ELSE "nil"),
         microCalled |-> TRUE]

\* StartService(config): the error, the *Service returned, whether micro.AddService
\* was called
startService(config) ==
    LET err == Validate(config)
    IN  IF err # NoError
        THEN [err |-> Wrap("invalid service config", err),
              svc |-> ServiceOf(FALSE, NoConfig, "nil"),
              microCalled |-> FALSE]
        ELSE LET microErr == microAddService(config.Nc)
             IN  [err |-> microErr,
                  svc |-> ServiceOf(TRUE, config, IF microErr = NoError THEN "running" ELSE "nil"),
                  microCalled |-> TRUE]

\* one service at a time: a program starts the next one once the last is stopped
StartService ==
    /\ service.microSvc # "running"
    /\ \E config \in Configs :
           LET res == startService(config)
           IN  /\ service' = res.svc
               /\ endpoints' = << >>
               /\ lastSvc' = SvcCall("StartService", "nil", res.err, FALSE, << >>, FALSE,
                                     res.microCalled)
    /\ UNCHANGED <<attached, outsideService>>

\* Service.Stop(): micro's Stop drops the endpoints; on a service that
\* micro.AddService did not return, svc.microSvc is a nil interface
Stop ==
    /\ ~service.isNil
    /\ service.microSvc # "stopped"
    /\ IF service.microSvc = "nil"
       THEN /\ lastSvc' = SvcCall("Stop", "nil", <<"panic">>, FALSE, << >>, FALSE, FALSE)
            /\ UNCHANGED <<service, endpoints>>
       ELSE /\ service' = [service EXCEPT !.microSvc = "stopped"]
            /\ endpoints' = << >>
            /\ lastSvc' = SvcCall("Stop", "nil", NoError, FALSE, << >>, FALSE, FALSE)
    /\ UNCHANGED <<attached, outsideService>>

\* the options AddEndpoint builds from the endpoint's config
EndpointOpts(config) ==
    [subject |-> config.Subject,
     metadata |-> IF Cardinality(config.Metadata) > 0 /\ Cardinality(config.Metadata) = 0
                  THEN config.Metadata ELSE {},
     queueGroup |-> config.QueueGroup]

\* micro's AddEndpoint, on the service (prefix "") or on a group: the subject is
\* the option's subject or else the name, behind the group's prefix and a dot
microAddEndpoint(eps, prefix, name, handler, opts) ==
    LET subject == IF opts.subject # EmptyString THEN opts.subject ELSE name
    IN  Append(eps, [Name |-> name,
                     Subject |-> IF prefix = EmptyString THEN subject
                                 ELSE prefix \o <<".">> \o subject,
                     Handler |-> handler,
                     Metadata |-> opts.metadata,
                     QueueGroup |-> opts.queueGroup])

AddResult(err, att, eps) == [err |-> err, attached |-> att, endpoints |-> eps]

addEndpoint_NoGroup(svc, att, eps, e) ==
    IF e = "nil" THEN AddResult(<<"nil endpointer">>, att, eps)
    ELSE LET set == [att EXCEPT ![e] = svc]
             config == ConfigOf(e)
         IN  IF config.isNil THEN AddResult(<<"missing endpoint config">>, set, eps)
             ELSE IF config.Name = EmptyString
                 THEN AddResult(<<"missing endpoint name">>, set, eps)
             ELSE IF ~svc.hasConfig \/ svc.microSvc = "nil"
                 THEN AddResult(<<"panic">>, set, eps)
             ELSE AddResult(NoError, set,
                            microAddEndpoint(eps, EmptyString, config.Name, e,
                                             EndpointOpts(config)))

\* Service.AddEndpoint(endpointer); svc.config.Group on a service without config
\* and a method of the nil svc.microSvc panic
addEndpoint(svc, att, eps, e) ==
    IF e = "nil" THEN AddResult(<<"nil endpointer">>, att, eps)
    ELSE LET set == [att EXCEPT ![e] = svc]
             config == ConfigOf(e)
         IN  IF config.isNil THEN AddResult(<<"missing endpoint config">>, set, eps)
             ELSE IF config.Name = EmptyString
                 THEN AddResult(<<"missing endpoint name">>, set, eps)
             ELSE IF ~svc.hasConfig \/ svc.microSvc = "nil"
                 THEN AddResult(<<"panic">>, set, eps)
             ELSE AddResult(NoError, set,
                            microAddEndpoint(eps, svc.config.Group, config.Name, e,
                                             EndpointOpts(config)))

AddEndpoint ==
    /\ service.microSvc # "stopped"
    /\ Len(endpoints) < MaxEndpoints
    /\ \E e \in Endpointers \cup {"nil"} :
           LET res == addEndpoint(service, attached, endpoints, e)
           IN  /\ attached' = res.attached
               /\ endpoints' = res.endpoints
               /\ lastSvc' = SvcCall("AddEndpoint", e, res.err, FALSE, << >>, FALSE, FALSE)
    /\ UNCHANGED <<service, outsideService>>

\* Service.AddEndpoints(endpoints...): endpoint.Config().Name on the endpoint that
\* failed panics when the endpointer or its config is nil
RECURSIVE addEndpoints(_, _, _, _, _)
addEndpoints(svc, att, eps, list, i) ==
    IF i > Len(list) THEN AddResult(NoError, att, eps)
    ELSE LET res == addEndpoint(svc, att, eps, list[i])
         IN  IF res.err = NoError
             THEN addEndpoints(svc, res.attached, res.endpoints, list, i + 1)
             ELSE IF res.err = <<"panic">> \/ list[i] = "nil" \/ ConfigOf(list[i]).isNil
                 THEN AddResult(<<"panic">>, res.attached, res.endpoints)
             ELSE AddResult(<<"could not add endpoint">> \o ConfigOf(list[i]).Name \o res.err,
                            res.attached, res.endpoints)

EndpointLists == UNION {[1..k -> Endpointers \cup {"nil"}] : k \in 0..MaxEndpoints}

AddEndpoints ==
    /\ service.microSvc # "stopped"
    /\ \E list \in EndpointLists :
           /\ Len(endpoints) + Len(list) <= MaxEndpoints
           /\ LET res == addEndpoints(service, attached, endpoints, list, 1)
              IN  /\ attached' = res.attached
                  /\ endpoints' = res.endpoints
                  /\ lastSvc' = SvcCall("AddEndpoints", "nil", res.err, FALSE, << >>, FALSE,
                                        FALSE)
    /\ UNCHANGED <<service, outsideService>>

\* Service.Logger(): the logger of the service's config
ServiceLogger(svc) == IF svc.isNil \/ ~svc.hasConfig THEN "panic" ELSE svc.config.Logger

Response(code, description) == [code |-> code, description |-> description]
Responded == Response("200", "ok")
Recovered(sent, escaped) == [sent |-> sent, escaped |-> escaped]

RecoverPanic_Silent(e, att, panicked) == Recovered(<< >>, FALSE)

\* RecoverPanic(e, request), deferred by Handle: what it sends, and whether a
\* panic leaves Handle (the one recovered is gone; one raised by RecoverPanic's
\* own calls of e.Service().Logger() and e.Config() is not)
RecoverPanic(e, att, panicked) ==
    IF ~panicked THEN Recovered(<< >>, FALSE)
    ELSE IF ServiceLogger(att[e]) \in {"panic", "nil"} THEN Recovered(<< >>, TRUE)
    ELSE IF ConfigOf(e).isNil THEN Recovered(<< >>, TRUE)
    ELSE Recovered(<<Response("500", "internal error")>>, FALSE)

\* Handle of an endpoint that defers RecoverPanic: it responds and returns, or
\* it panics, before or after it has responded
handle(e, att, panics, early) ==
    LET before == IF early \/ ~panics THEN <<Responded>> ELSE << >>
        rec == RecoverPanic(e, att, panics)
    IN  Recovered(before \o rec.sent, rec.escaped)

\* the micro service hands a request to the handler of one of its endpoints
Handle ==
    /\ service.microSvc = "running"
    /\ \E i \in DOMAIN endpoints, panics \in BOOLEAN, early \in BOOLEAN :
           LET res == handle(endpoints[i].Handler, attached, panics, early)
           IN  lastSvc' = SvcCall("Handle", endpoints[i].Handler, NoError, panics, res.sent,
                                  res.escaped, FALSE)
    /\ UNCHANGED <<service, endpoints, attached, outsideService>>

NextService ==
    \/ StartService
    \/ Stop
    \/ AddEndpoint
    \/ AddEndpoints
    \/ Handle

SpecService == Init /\ [][NextService]_vars

\* ================================================================== keyvalue
\* The key-value stores of pkg/keyvalue: MemoryKV and JetStreamKV.  Every
\* operation returns [err, kv, val, exists, typed]: the error, the store after
\* the call, the bytes of Get, the flag of Exists, the value of GetTyped.
KvRes(err, kv, val, exists, typed) ==
    [err |-> err, kv |-> kv, val |-> val, exists |-> exists, typed |-> typed]
KvFail(err, kv) == KvRes(err, kv, NilBytes, FALSE, NilValue)
KvOk(kv) == KvRes(NoError, kv, NilBytes, FALSE, NilValue)

\* options := &setOptions{}; for _, opt := range opts { opt(options) }; options.ttl
ttlOf(opts) == IF opts = << >> THEN 0 ELSE opts[Len(opts)].ttl

\* valueCopy := make([]byte, len(value)); copy(valueCopy, value)
copyBytes(value) == IF value.kind = "raw" THEN RawBytes(value.raw) ELSE JsonBytes(value.typed)

\* json.Marshal(typedData) and json.Unmarshal(data, &typedData): [err, typed];
\* nil, empty and raw bytes are no JSON text
jsonMarshalTyped(typedData) == JsonBytes(typedData)
jsonUnmarshalTyped(data) ==
    IF data.isNil \/ data.kind # "json" THEN [err |-> TRUE, typed |-> NoTypedData]
    ELSE [err |-> FALSE, typed |-> data.typed]

\* ------------------------------------------------------------------ MemoryKV
\* MemoryKV.Set(ctx, key, value, opts...)
memSet(m, key, value, opts) ==
    IF key = "" THEN KvFail(ErrEmptyKey, m)
    ELSE IF ttlOf(opts) > 0
        THEN KvFail(<<"TTL is not supported in memory implementation">>, m)
    ELSE IF value.isNil THEN KvOk([m EXCEPT !.data = Put(m.data, key, NilBytes)])
    ELSE KvOk([m EXCEPT !.data = Put(m.data, key, copyBytes(value))])

\* MemoryKV.Get that takes a stored nil for an absent key
memGet_NilIsAbsent(m, key) ==
    IF key = "" THEN KvFail(ErrEmptyKey, m)
    ELSE IF key \notin DOMAIN m.data \/ m.data[key].isNil THEN KvFail(ErrKeyNotFound, m)
    ELSE KvRes(NoError, m, copyBytes(m.data[key]), FALSE, NilValue)

\* MemoryKV.Get(ctx, key)
memGet(m, key) ==
    IF key = "" THEN KvFail(ErrEmptyKey, m)
    ELSE IF key \notin DOMAIN m.data THEN KvFail(ErrKeyNotFound, m)
    ELSE IF m.data[key].isNil THEN KvRes(NoError, m, NilBytes, FALSE, NilValue)
    ELSE KvRes(NoError, m, copyBytes(m.data[key]), FALSE, NilValue)

\* MemoryKV.Delete(ctx, key)
memDelete(m, key) ==
    IF key = "" THEN KvFail(ErrEmptyKey, m)
    ELSE KvOk([m EXCEPT !.data = Del(m.data, key)])

\* MemoryKV.Exists(ctx, key)
memExists(m, key) ==
    IF key = "" THEN KvFail(ErrEmptyKey, m)
    ELSE KvRes(NoError, m, NilBytes, key \in DOMAIN m.data, NilValue)

\* MemoryKV.SetTyped(ctx, key, value, opts...) with the registry r
memSetTyped(m, r, key, value, opts) ==
    IF ~m.hasRegistry
    THEN KvFail(<<"type registry is required for typed operations">>, m)
    ELSE IF key = "" THEN KvFail(ErrEmptyKey, m)
    ELSE IF ttlOf(opts) > 0
        THEN KvFail(<<"TTL is not supported in memory implementation">>, m)
    ELSE LET typedData == MarshalTypedData(r, value)
         IN  IF typedData.err # "nil"
             THEN KvFail(Wrap("failed to marshal typed data", <<typedData.err>>), m)
             ELSE KvOk([m EXCEPT !.data = Put(m.data, key, jsonMarshalTyped(typedData.val))])

\* MemoryKV.GetTyped(ctx, key) with the registry r
memGetTyped(m, r, key) ==
    IF ~m.hasRegistry
    THEN KvFail(<<"type registry is required for typed operations">>, m)
    ELSE IF key = "" THEN KvFail(ErrEmptyKey, m)
    ELSE IF key \notin DOMAIN m.data THEN KvFail(ErrKeyNotFound, m)
    ELSE LET dec == jsonUnmarshalTyped(m.data[key])
         IN  IF dec.err
             THEN KvFail(Wrap("failed to unmarshal typed data JSON", <<"json">>), m)
             ELSE LET value == UnmarshalTypedData(r, dec.typed)
                  IN  IF value.err # "nil"
                      THEN KvFail(Wrap("failed to unmarshal typed data", <<value.err>>), m)
                      ELSE KvRes(NoError, m, NilBytes, FALSE, value.val)

\* MemoryKV.DeleteTyped(ctx, key)
memDeleteTyped(m, key) == memDelete(m, key)

\* ------------------------------------------------------------------ JetStreamKV
\* The bucket is the JetStream key-value bucket: Put, Get and Purge are atomic
\* there, and fail with an error of the connection when it is down.  A value of
\* length 0 comes back as the empty slice.
bucketPut(bucket, key, value) ==
    Put(bucket, key, IF value.isNil THEN RawBytes(<< >>) ELSE value)

\* JetStreamKV.Set(ctx, key, value, opts...)
jsSet(kv, key, value, opts, down) ==
    IF key = "" THEN KvFail(ErrEmptyKey, kv)
    ELSE IF ttlOf(opts) > 0 THEN KvFail(<<"per-key TTL is not supported">>, kv)
    ELSE IF down THEN KvFail(Wrap("failed to set key", <<"nats">>), kv)
    ELSE KvOk([kv EXCEPT !.bucket = bucketPut(kv.bucket, key, value)])

\* JetStreamKV.Get(ctx, key)
jsGet(kv, key, down) ==
    IF key = "" THEN KvFail(ErrEmptyKey, kv)
    ELSE IF down THEN KvFail(Wrap("failed to get key", <<"nats">>), kv)
    ELSE IF key \notin DOMAIN kv.bucket THEN KvFail(ErrKeyNotFound, kv)
    ELSE KvRes(NoError, kv, kv.bucket[key], FALSE, NilValue)

\* JetStreamKV.Delete(ctx, key): bucket.Purge, whose ErrKeyNotFound is no error
jsDelete(kv, key, down) ==
    IF key = "" THEN KvFail(ErrEmptyKey, kv)
    ELSE IF down THEN KvFail(Wrap("failed to delete key", <<"nats">>), kv)
    ELSE KvOk([kv EXCEPT !.bucket = Del(kv.bucket, key)])

\* JetStreamKV.Exists(ctx, key)
jsExists(kv, key, down) ==
    IF key = "" THEN KvFail(ErrEmptyKey, kv)
    ELSE IF down THEN KvFail(Wrap("failed to check key existence", <<"nats">>), kv)
    ELSE KvRes(NoError, kv, NilBytes, key \in DOMAIN kv.bucket, NilValue)

\* JetStreamKV.SetTyped(ctx, key, value, opts...): the value is marshalled
\* first, the key and the options are looked at in Set
jsSetTyped(kv, r, key, value, opts, down) ==
    IF ~kv.hasRegistry
    THEN KvFail(<<"type registry is required for typed operations">>, kv)
    ELSE LET typed == MarshalTypedData(r, value)
         IN  IF typed.err # "nil"
             THEN KvFail(Wrap("failed to marshal typed value", <<typed.err>>), kv)
             ELSE jsSet(kv, key, jsonMarshalTyped(typed.val), opts, down)

\* JetStreamKV.GetTyped(ctx, key)
jsGetTyped(kv, r, key, down) ==
    IF ~kv.hasRegistry
    THEN KvFail(<<"type registry is required for typed operations">>, kv)
    ELSE LET got == jsGet(kv, key, down)
         IN  IF got.err # NoError THEN KvFail(got.err, kv)
             ELSE LET dec == jsonUnmarshalTyped(got.val)
                  IN  IF dec.err
                      THEN KvFail(Wrap("failed to unmarshal typed data", <<"json">>), kv)
                      ELSE LET value == UnmarshalTypedData(r, dec.typed)
                           IN  IF value.err # "nil"
                               THEN KvFail(Wrap("failed to unmarshal value",
                                                <<value.err>>), kv)
                               ELSE KvRes(NoError, kv, NilBytes, FALSE, value.val)

\* JetStreamKV.DeleteTyped(ctx, key)
jsDeleteTyped(kv, key, down) == jsDelete(kv, key, down)

\* ------------------------------------------------------------------ key-value calls
\* what the calls hand in
CallKeys == {"", "a"}
CallValues == {NilBytes, RawBytes(<<"v">>)}
CallOptions == {<< >>, <<WithTTL(1)>>}
CallTyped == {UserOf("n", 1), OrderOf("i")}

\* the registry of the stores: typeregistry.New() with User registered under its
\* inferred name, as the tests' setup registers their types
InitKV ==
    /\ InitTools
    /\ stream = EmptyStream
    /\ destkv = JetStreamKV(EmptyMap, FALSE)
    /\ watcher = NoWatcher
    /\ syncCtx = "live"
    /\ sync = NoSync
    /\ memkv = MemoryKV(EmptyMap, TRUE)
    /\ jskv = JetStreamKV(EmptyMap, TRUE)
    /\ kvmu = Unlocked
    /\ kvpc = [t \in KvGoroutines |-> "idle"]
    /\ kvloc = [t \in KvGoroutines |-> NoKvLocals]
    /\ lastKv = NoKvCall
    /\ types = registerWithOptions(Reg(EmptyMap, EmptyMap, EmptyMap), EmptyName,
                                   "*User", "nil", "nil").reg.types
    /\ rtypes = registerWithOptions(Reg(EmptyMap, EmptyMap, EmptyMap), EmptyName,
                                    "*User", "nil", "nil").reg.rtypes
    /\ aliases = EmptyMap
    /\ last = NoCall
    /\ mu = Unlocked
    /\ pc = [t \in Goroutines |-> "idle"]
    /\ loc = [t \in Goroutines |-> NoLocals]
    /\ service = NilService
    /\ endpoints = << >>
    /\ attached = [e \in Endpointers |-> NilService]
    /\ lastSvc = NoSvcCall

Returned(store, op, key, res) ==
    lastKv' = KvCall(store, op, key, res.err, res.val, res.exists, res.typed)

\* NewMemoryKV(): a new store without a registry
NewMemoryKV ==
    /\ memkv' = MemoryKV(EmptyMap, FALSE)
    /\ lastKv' = NoKvCall
    /\ UNCHANGED <<jskv, kvConc, outsideKv>>

\* NewMemoryKVWithOptions(registry): a new store, registry nil or not
NewMemoryKVWithOptions ==
    \E hasRegistry \in BOOLEAN :
        /\ memkv' = MemoryKV(EmptyMap, hasRegistry)
        /\ lastKv' = NoKvCall
        /\ UNCHANGED <<jskv, kvConc, outsideKv>>

\* NewJetStreamKV(ctx, js, bucket, description, registry): CreateOrUpdateKeyValue
\* binds the bucket of that name, which keeps its entries
NewJetStreamKV ==
    \E hasRegistry \in BOOLEAN :
        /\ jskv' = JetStreamKV(jskv.bucket, hasRegistry)
        /\ lastKv' = NoKvCall
        /\ UNCHANGED <<memkv, kvConc, outsideKv>>

MemoryKVSet ==
    \E key \in CallKeys, value \in CallValues, opts \in CallOptions :
        LET res == memSet(memkv, key, value, opts)
        IN  /\ memkv' = res.kv
            /\ Returned("memory", "Set", key, res)
            /\ UNCHANGED <<jskv, kvConc, outsideKv>>

MemoryKVGet ==
    \E key \in CallKeys :
        LET res == memGet(memkv, key)
        IN  /\ Returned("memory", "Get", key, res)
            /\ UNCHANGED <<memkv, jskv, kvConc, outsideKv>>

MemoryKVDelete ==
    \E key \in CallKeys :
        LET res == memDelete(memkv, key)
        IN  /\ memkv' = res.kv
            /\ Returned("memory", "Delete", key, res)
            /\ UNCHANGED <<jskv, kvConc, outsideKv>>

MemoryKVExists ==
    \E key \in CallKeys :
        LET res == memExists(memkv, key)
        IN  /\ Returned("memory", "Exists", key, res)
            /\ UNCHANGED <<memkv, jskv, kvConc, outsideKv>>

MemoryKVSetTyped ==
    \E key \in CallKeys, value \in CallTyped, opts \in CallOptions :
        LET res == memSetTyped(memkv, Cur, key, value, opts)
        IN  /\ memkv' = res.kv
            /\ Returned("memory", "SetTyped", key, res)
            /\ UNCHANGED <<jskv, kvConc, outsideKv>>

MemoryKVGetTyped ==
    \E key \in CallKeys :
        LET res == memGetTyped(memkv, Cur, key)
        IN  /\ Returned("memory", "GetTyped", key, res)
            /\ UNCHANGED <<memkv, jskv, kvConc, outsideKv>>

MemoryKVDeleteTyped ==
    \E key \in CallKeys :
        LET res == memDeleteTyped(memkv, key)
        IN  /\ memkv' = res.kv
            /\ Returned("memory", "DeleteTyped", key, res)
            /\ UNCHANGED <<jskv, kvConc, outsideKv>>

JetStreamKVSet ==
    \E key \in CallKeys, value \in CallValues, opts \in CallOptions, down \in BOOLEAN :
        LET res == jsSet(jskv, key, value, opts, down)
        IN  /\ jskv' = res.kv
            /\ Returned("jetstream", "Set", key, res)
            /\ UNCHANGED <<memkv, kvConc, outsideKv>>

JetStreamKVGet ==
    \E key \in CallKeys, down \in BOOLEAN :
        LET res == jsGet(jskv, key, down)
        IN  /\ Returned("jetstream", "Get", key, res)
            /\ UNCHANGED <<memkv, jskv, kvConc, outsideKv>>

JetStreamKVDelete ==
    \E key \in CallKeys, down \in BOOLEAN :
        LET res == jsDelete(jskv, key, down)
        IN  /\ jskv' = res.kv
            /\ Returned("jetstream", "Delete", key, res)
            /\ UNCHANGED <<memkv, kvConc, outsideKv>>

JetStreamKVExists ==
    \E key \in CallKeys, down \in BOOLEAN :
        LET res == jsExists(jskv, key, down)
        IN  /\ Returned("jetstream", "Exists", key, res)
            /\ UNCHANGED <<memkv, jskv, kvConc, outsideKv>>

JetStreamKVSetTyped ==
    \E key \in CallKeys, value \in CallTyped, opts \in CallOptions, down \in BOOLEAN :
        LET res == jsSetTyped(jskv, Cur, key, value, opts, down)
        IN  /\ jskv' = res.kv
            /\ Returned("jetstream", "SetTyped", key, res)
            /\ UNCHANGED <<memkv, kvConc, outsideKv>>

JetStreamKVGetTyped ==
    \E key \in CallKeys, down \in BOOLEAN :
        LET res == jsGetTyped(jskv, Cur, key, down)
        IN  /\ Returned("jetstream", "GetTyped", key, res)
            /\ UNCHANGED <<memkv, jskv, kvConc, outsideKv>>

JetStreamKVDeleteTyped ==
    \E key \in CallKeys, down \in BOOLEAN :
        LET res == jsDeleteTyped(jskv, key, down)
        IN  /\ jskv' = res.kv
            /\ Returned("jetstream", "DeleteTyped", key, res)
            /\ UNCHANGED <<memkv, kvConc, outsideKv>>

NextKV ==
    \/ NewMemoryKV
    \/ NewMemoryKVWithOptions
    \/ NewJetStreamKV
    \/ MemoryKVSet
    \/ MemoryKVGet
    \/ MemoryKVDelete
    \/ MemoryKVExists
    \/ MemoryKVSetTyped
    \/ MemoryKVGetTyped
    \/ MemoryKVDeleteTyped
    \/ JetStreamKVSet
    \/ JetStreamKVGet
    \/ JetStreamKVDelete
    \/ JetStreamKVExists
    \/ JetStreamKVSetTyped
    \/ JetStreamKVGetTyped
    \/ JetStreamKVDeleteTyped

SpecKV == InitKV /\ [][NextKV]_vars

\* ------------------------------------------------------------------ MemoryKV, concurrently
\* Two goroutines call one MemoryKV.  A call checks its arguments, takes m.mu
\* (Lock for Set, Delete, SetTyped, DeleteTyped; RLock for the others), reads
\* or writes m.data once, and releases m.mu on return.
MemoryKVOps == {"Set", "Get", "Delete", "Exists", "SetTyped", "GetTyped", "DeleteTyped"}
MemoryKVWrites == {"Set", "Delete", "SetTyped", "DeleteTyped"}
KvLocals(op, key, value, typed, opts, res, snap) ==
    [op |-> op, key |-> key, value |-> value, typed |-> typed, opts |-> opts,
     res |-> res, snap |-> snap]

\* the operation op of the store m with the arguments a
memApply(op, m, r, a) ==
    CASE op = "Set" -> memSet(m, a.key, a.value, a.opts)
      [] op = "Get" -> memGet(m, a.key)
      [] op = "Delete" -> memDelete(m, a.key)
      [] op = "Exists" -> memExists(m, a.key)
      [] op = "SetTyped" -> memSetTyped(m, r, a.key, a.typed, a.opts)
      [] op = "GetTyped" -> memGetTyped(m, r, a.key)
      [] op = "DeleteTyped" -> memDeleteTyped(m, a.key)

\* the error a call returns before it takes m.mu, NoError when it goes on
memPrecheck(op, m, r, a) ==
    IF op \in {"SetTyped", "GetTyped"} /\ ~m.hasRegistry
    THEN <<"type registry is required for typed operations">>
    ELSE IF a.key = "" THEN ErrEmptyKey
    ELSE IF op \in {"Set", "SetTyped"} /\ ttlOf(a.opts) > 0
        THEN <<"TTL is not supported in memory implementation">>
    ELSE IF op = "SetTyped" /\ MarshalTypedData(r, a.typed).err # "nil"
        THEN Wrap("failed to marshal typed data", <<MarshalTypedData(r, a.typed).err>>)
    ELSE NoError

\* what a call returns: the result without the store
KvOut(res) == [err |-> res.err, val |-> res.val, exists |-> res.exists, typed |-> res.typed]

\* a goroutine calls an operation: it returns at once on an error of its
\* arguments, and goes for m.mu otherwise
KvInvoke(t) ==
    /\ kvpc[t] = "idle"
    /\ \E op \in MemoryKVOps, key \in KvKeys, value \in CallValues, typed \in CallTyped,
          opts \in CallOptions :
        LET a == KvLocals(op, key,
                          IF op = "Set" THEN value ELSE NilBytes,
                          IF op = "SetTyped" THEN typed ELSE NilValue,
                          IF op \in {"Set", "SetTyped"} THEN opts ELSE << >>,
                          KvOut(KvOk(memkv)), EmptyMap)
            err == memPrecheck(op, memkv, Cur, a)
        IN  /\ key \in CallKeys \/ op \in {"Set", "Delete"}
            /\ kvloc' = [kvloc EXCEPT ![t] = [a EXCEPT !.res = KvOut(KvFail(err, memkv))]]
            /\ kvpc' = [kvpc EXCEPT ![t] = IF err # NoError THEN "return" ELSE "lock"]
    /\ UNCHANGED <<memkv, jskv, kvmu, lastKv, outsideKv>>

\* m.mu.Lock() / m.mu.RLock()
KvAcquire(t) ==
    /\ kvpc[t] = "lock"
    /\ IF kvloc[t].op \in MemoryKVWrites
       THEN /\ kvmu.w = "none" /\ kvmu.r = {}
            /\ kvmu' = [kvmu EXCEPT !.w = t]
       ELSE /\ kvmu.w = "none"
            /\ kvmu' = [kvmu EXCEPT !.r = @ \cup {t}]
    /\ kvpc' = [kvpc EXCEPT ![t] = "access"]
    /\ UNCHANGED <<memkv, jskv, kvloc, lastKv, outsideKv>>

\* the read or write of m.data, with what comes of it; snap is m.data as the
\* write found it
KvAccess(t) ==
    /\ kvpc[t] = "access"
    /\ LET res == memApply(kvloc[t].op, memkv, Cur, kvloc[t])
       IN  /\ memkv' = res.kv
           /\ kvloc' = [kvloc EXCEPT ![t].res = KvOut(res),
                                     ![t].snap = IF kvloc[t].op \in MemoryKVWrites
                                                 THEN memkv.data ELSE EmptyMap]
    /\ kvpc' = [kvpc EXCEPT ![t] = "unlock"]
    /\ UNCHANGED <<jskv, kvmu, lastKv, outsideKv>>

\* the deferred m.mu.Unlock() / m.mu.RUnlock()
KvRelease(t) ==
    /\ kvpc[t] = "unlock"
    /\ kvmu' = IF kvmu.w = t THEN [kvmu EXCEPT !.w = "none"]
               ELSE [kvmu EXCEPT !.r = @ \ {t}]
    /\ kvpc' = [kvpc EXCEPT ![t] = "return"]
    /\ UNCHANGED <<memkv, jskv, kvloc, lastKv, outsideKv>>

\* the call returns to its caller
KvReturn(t) ==
    /\ kvpc[t] = "return"
    /\ kvpc' = [kvpc EXCEPT ![t] = "idle"]
    /\ kvloc' = [kvloc EXCEPT ![t] = NoKvLocals]
    /\ UNCHANGED <<memkv, jskv, kvmu, lastKv, outsideKv>>

NextMemConc ==
    \/ \E t \in KvGoroutines : KvInvoke(t)
    \/ \E t \in KvGoroutines : KvAcquire(t)
    \/ \E t \in KvGoroutines : KvAccess(t)
    \/ \E t \in KvGoroutines : KvRelease(t)
    \/ \E t \in KvGoroutines : KvReturn(t)

SpecMemConc == InitKV /\ [][NextMemConc]_vars

\* ================================================================== SynchronizeWithKV
\* JetStreamKV.SynchronizeWithKV(ctx, keys, destKv) beside the writers of its
\* source bucket.  The watcher is the library's: it sends the last entry of
\* every key that matches a filter, in the order of their revisions, then the
\* nil entry, then every later entry of a matching key; its channel is closed
\* when the subscription ends.
SyncKeys == {"a", "b"}
SyncValues == {RawBytes(<<"v">>), RawBytes(<<"w">>)}
\* the key lists handed in: "a" is watched, "b" is not
KeyFilters == {<<"a">>}
matches(keys, key) == \E i \in DOMAIN keys : keys[i] = key

\* a write to the bucket: the next revision, the one entry kept for the key
streamPut(st, key, op, value) ==
    LET others_ == SelectSeq(st.last, LAMBDA e : e.key # key)
    IN  [revision |-> st.revision + 1,
         last |-> Append(others_, Entry(key, op, value, st.revision + 1))]
LastEntry(st) == st.last[Len(st.last)]

\* kv.WatchAll(ctx) in the place of kv.WatchFiltered(ctx, keys)
WatchFiltered_WatchAll(st, keys) ==
    [keys |-> <<"a", "b">>, updates |-> Append(st.last, NilEntry),
     closed |-> FALSE, stopped |-> FALSE]

\* kv.WatchFiltered(ctx, keys): the watcher of the keys, the initial values in
\* its channel
WatchFiltered(st, keys) ==
    [keys |-> keys,
     updates |-> Append(SelectSeq(st.last, LAMBDA e : matches(keys, e.key)), NilEntry),
     closed |-> FALSE, stopped |-> FALSE]

\* the watcher of a running call takes the entry when its key matches
deliver(w, sy, entry) ==
    IF sy.pc = "running" /\ ~w.closed /\ ~w.stopped /\ matches(w.keys, entry.key)
    THEN [w EXCEPT !.updates = Append(@, entry)]
    ELSE w

\* sourceKv.Set(ctx, key, value)
SourceSet ==
    /\ stream.revision < MaxRevision
    /\ \E key \in SyncKeys, value \in SyncValues :
          /\ jskv' = jsSet(jskv, key, value, << >>, FALSE).kv
          /\ stream' = streamPut(stream, key, "put", value)
          /\ watcher' = deliver(watcher, sync, LastEntry(streamPut(stream, key, "put", value)))
    /\ UNCHANGED <<destkv, syncCtx, sync, outsideSync>>

\* sourceKv.Delete(ctx, key): bucket.Purge, which leaves a purge entry
SourceDelete ==
    /\ stream.revision < MaxRevision
    /\ \E key \in SyncKeys :
          /\ jskv' = jsDelete(jskv, key, FALSE).kv
          /\ stream' = streamPut(stream, key, "purge", NilBytes)
          /\ watcher' = deliver(watcher, sync,
                                LastEntry(streamPut(stream, key, "purge", NilBytes)))
    /\ UNCHANGED <<destkv, syncCtx, sync, outsideSync>>

\* another client of the bucket deletes a key: a delete entry
BucketDelete ==
    /\ stream.revision < MaxRevision
    /\ \E key \in SyncKeys :
          /\ jskv' = [jskv EXCEPT !.bucket = Del(@, key)]
          /\ stream' = streamPut(stream, key, "delete", NilBytes)
          /\ watcher' = deliver(watcher, sync,
                                LastEntry(streamPut(stream, key, "delete", NilBytes)))
    /\ UNCHANGED <<destkv, syncCtx, sync, outsideSync>>

\* cancel() of the context, or its deadline, while the call runs
Cancel ==
    /\ syncCtx = "live"
    /\ sync.pc = "running"
    /\ \E e \in {"canceled", "deadline"} : syncCtx' = e
    /\ UNCHANGED <<jskv, stream, destkv, watcher, sync, outsideSync>>

\* the subscription of the watcher ends (the connection is closed): the
\* channel is closed, what it holds can still be received
ConnClose ==
    /\ sync.pc = "running"
    /\ ~watcher.closed
    /\ watcher' = [watcher EXCEPT !.closed = TRUE]
    /\ UNCHANGED <<jskv, stream, destkv, syncCtx, sync, outsideSync>>

\* a loop that returns nil when the context is done
ctxErr_Nil(c) == NoError

\* ctx.Err() of a context that is done
ctxErr(c) == IF c = "canceled" THEN <<"context canceled">> ELSE <<"context deadline exceeded">>
returned(sy, ret) == [sy EXCEPT !.pc = "returned", !.ret = ret]

\* the call and its first statement: WatchFiltered, whose error is returned
SynchronizeWithKV ==
    /\ sync.pc = "idle"
    /\ \E keys \in KeyFilters, fails \in BOOLEAN :
          IF fails
          THEN /\ sync' = returned([sync EXCEPT !.keys = keys, !.err = <<"watch">>], <<"watch">>)
               /\ UNCHANGED watcher
          ELSE /\ sync' = [sync EXCEPT !.pc = "running", !.keys = keys]
               /\ watcher' = WatchFiltered(stream, keys)
    /\ UNCHANGED <<jskv, stream, destkv, syncCtx, outsideSync>>

\* case <-ctx.Done(): return ctx.Err(), and the deferred keyWatcher.Stop()
SyncDone ==
    /\ sync.pc = "running"
    /\ syncCtx # "live"
    /\ sync' = returned(sync, ctxErr(syncCtx))
    /\ watcher' = [watcher EXCEPT !.stopped = TRUE]
    /\ UNCHANGED <<jskv, stream, destkv, syncCtx, outsideSync>>

\* case update, ok := <-keyWatcher.Updates() with the channel closed and empty
SyncClosed ==
    /\ sync.pc = "running"
    /\ watcher.closed /\ watcher.updates = << >>
    /\ sync' = returned(sync, NoError)
    /\ watcher' = [watcher EXCEPT !.stopped = TRUE]
    /\ UNCHANGED <<jskv, stream, destkv, syncCtx, outsideSync>>

\* SynchronizeWithKV that leaves the destination alone on a delete or purge
syncApply_KeepsDeleted(dest, sy, update, down) ==
    IF update.isNil THEN [dest |-> dest, sync |-> sy]
    ELSE IF update.op = "put"
    THEN LET res == jsSet(dest, update.key, update.value, << >>, down)
         IN  IF res.err # NoError
             THEN [dest |-> res.kv,
                   sync |-> returned([sy EXCEPT !.err = res.err, !.failed = TRUE],
                                     Wrap("failed to set value for key", res.err))]
             ELSE [dest |-> res.kv,
                   sync |-> [sy EXCEPT !.err = NoError, !.applied = update.revision]]
    ELSE [dest |-> dest, sync |-> [sy EXCEPT !.err = NoError, !.applied = update.revision]]

\* one update received: [dest, sync] after the switch on update.Operation();
\* down is the destination failing
syncApply(dest, sy, update, down) ==
    IF update.isNil THEN [dest |-> dest, sync |-> sy]
    ELSE IF update.op = "put"
    THEN LET res == jsSet(dest, update.key, update.value, << >>, down)
         IN  IF res.err # NoError
             THEN [dest |-> res.kv,
                   sync |-> returned([sy EXCEPT !.err = res.err, !.failed = TRUE],
                                     Wrap("failed to set value for key", res.err))]
             ELSE [dest |-> res.kv,
                   sync |-> [sy EXCEPT !.err = NoError, !.applied = update.revision]]
    ELSE IF update.op = "delete"
    THEN LET res == jsDelete(dest, update.key, down)
         IN  IF res.err # NoError
             THEN [dest |-> res.kv,
                   sync |-> returned([sy EXCEPT !.err = res.err, !.failed = TRUE],
                                     Wrap("failed to delete value for key", res.err))]
             ELSE [dest |-> res.kv,
                   sync |-> [sy EXCEPT !.err = NoError, !.applied = update.revision]]
    ELSE LET res == jsDelete(dest, update.key, down)
         IN  [dest |-> res.kv,
              sync |-> [sy EXCEPT !.err = res.err, !.applied = update.revision,
                                  !.failed = @ \/ res.err # NoError]]

\* case update, ok := <-keyWatcher.Updates() with an update in the channel
SyncUpdate ==
    /\ sync.pc = "running"
    /\ watcher.updates # << >>
    /\ \E down \in BOOLEAN :
          LET res == syncApply(destkv, sync, Head(watcher.updates), down)
          IN  /\ destkv' = res.dest
              /\ sync' = res.sync
              /\ watcher' = [watcher EXCEPT !.updates = Tail(@),
                                            !.stopped = res.sync.pc = "returned"]
    /\ UNCHANGED <<jskv, stream, syncCtx, outsideSync>>

\* destKv.Set(ctx, key, value) by the owner of the destination, before the call
DestSet ==
    /\ sync.pc = "idle"
    /\ stream.revision = 0
    /\ destkv.bucket = EmptyMap
    /\ \E key \in SyncKeys :
          destkv' = jsSet(destkv, key, RawBytes(<<"old">>), << >>, FALSE).kv
    /\ UNCHANGED <<jskv, stream, watcher, syncCtx, sync, outsideSync>>

NextSync ==
    \/ DestSet
    \/ SourceSet
    \/ SourceDelete
    \/ BucketDelete
    \/ Cancel
    \/ ConnClose
    \/ SynchronizeWithKV
    \/ SyncDone
    \/ SyncClosed
    \/ SyncUpdate

SpecSync == InitKV /\ [][NextSync]_vars

\* the goroutine of the call keeps running its loop, and a select with
\* ctx.Done() ready takes that case in the end
SpecSyncFair ==
    SpecSync /\ WF_vars(SyncUpdate) /\ WF_vars(SyncDone) /\ WF_vars(SyncClosed)

\* ================================================================== natstools
\* pkg/natstools: the embedded NATS server and its accessors.
EmbPorts == {"0", "4222"}
OptionInputs ==
    {NilOptions} \cup
    {EmbeddedOptions(i, p, j) : i \in BOOLEAN, p \in EmbPorts, j \in BOOLEAN}

\* DefaultOptions()
DefaultOptions == EmbeddedOptions(FALSE, "4222", TRUE)

\* the port a listener is bound to: port 0 asks for a free one
listenPort(p) == IF p = "0" THEN "random" ELSE p
\* server.ClientURL()
serverClientURL(srv) == <<"nats://", srv.Host, ":", srv.Port>>
\* an earlier server that still listens on the port: the new one cannot bind it
portTaken(e, o) ==
    /\ ~e.isNil /\ e.server.running /\ ~e.server.DontListen
    /\ ~o.InProcessOnly /\ o.Port # "0" /\ e.server.Port = o.Port

\* StartEmbeddedWithOptions(opts): [es, err]; ready is srv.ReadyForConnections
startEmbeddedWithOptions(o_, ready) ==
    LET o == IF o_.isNil THEN DefaultOptions ELSE o_
        srv == [DontListen |-> o.InProcessOnly, Host |-> o.Host,
                Port |-> IF o.InProcessOnly THEN o.Port ELSE listenPort(o.Port),
                JetStream |-> o.EnableJetStream, running |-> TRUE]
    IN  IF ~ready
        THEN [es |-> NilEmbedded, err |-> <<"server failed to start within timeout">>]
        ELSE [es |-> [isNil |-> FALSE, server |-> srv, nc |-> "connected",
                      js |-> IF o.EnableJetStream THEN "js" ELSE "nil", opts |-> o],
              err |-> NoError]

\* StartEmbedded()
startEmbedded(ready) == startEmbeddedWithOptions(DefaultOptions, ready)

\* StartEmbeddedInProcess(opts)
startEmbeddedInProcess(o_, ready) ==
    LET o == IF o_.isNil THEN DefaultOptions ELSE o_
    IN  startEmbeddedWithOptions([o EXCEPT !.InProcessOnly = TRUE], ready)

\* e.Connection()
Connection(e) == e.nc
\* e.JetStream()
JetStream(e) == e.js
\* e.ClientURL()
ClientURL(e) == IF e.opts.InProcessOnly THEN EmptyString ELSE serverClientURL(e.server)
\* e.NewTCPConnection(): [conn, err]; nats.Connect(url) reaches a running server
NewTCPConnection(e) ==
    IF e.opts.InProcessOnly
    THEN [conn |-> "nil", err |-> <<"server is configured for in-process only connections">>]
    ELSE IF ClientURL(e) = EmptyString
    THEN [conn |-> "nil", err |-> <<"no TCP URL available">>]
    ELSE IF e.server.running
    THEN [conn |-> "connected", err |-> NoError]
    ELSE [conn |-> "nil", err |-> <<"nats: no servers available for connection">>]
\* e.Shutdown()
Shutdown(e) == [e EXCEPT !.nc = "closed", !.server.running = FALSE]

EmbStarted(start, res) ==
    /\ embedded' = IF res.err = NoError THEN res.es ELSE embedded
    /\ lastEmb' = [NoEmbCall EXCEPT !.start = IF res.err = NoError THEN start ELSE lastEmb.start,
                                    !.op = start, !.err = res.err]

StartEmbedded ==
    \E ready \in BOOLEAN :
        /\ portTaken(embedded, DefaultOptions) => ~ready
        /\ EmbStarted("StartEmbedded", startEmbedded(ready))
        /\ UNCHANGED outsideNatstools

StartEmbeddedInProcess ==
    \E o \in OptionInputs, ready \in BOOLEAN :
        /\ EmbStarted("StartEmbeddedInProcess", startEmbeddedInProcess(o, ready))
        /\ UNCHANGED outsideNatstools

StartEmbeddedWithOptions ==
    \E o \in OptionInputs, ready \in BOOLEAN :
        /\ portTaken(embedded, IF o.isNil THEN DefaultOptions ELSE o) => ~ready
        /\ EmbStarted("StartEmbeddedWithOptions", startEmbeddedWithOptions(o, ready))
        /\ UNCHANGED outsideNatstools

EmbReturned(op, url, conn, js, err) ==
    /\ lastEmb' = [start |-> lastEmb.start, op |-> op, url |-> url, conn |-> conn,
                    js |-> js, err |-> err]
    /\ UNCHANGED <<embedded, outsideNatstools>>

ConnectionCall ==
    /\ ~embedded.isNil
    /\ EmbReturned("Connection", EmptyString, Connection(embedded), "nil", NoError)

JetStreamCall ==
    /\ ~embedded.isNil
    /\ EmbReturned("JetStream", EmptyString, "nil", JetStream(embedded), NoError)

ClientURLCall ==
    /\ ~embedded.isNil
    /\ EmbReturned("ClientURL", ClientURL(embedded), "nil", "nil", NoError)

NewTCPConnectionCall ==
    /\ ~embedded.isNil
    /\ EmbReturned("NewTCPConnection", EmptyString, NewTCPConnection(embedded).conn,
                   "nil", NewTCPConnection(embedded).err)

ShutdownCall ==
    /\ ~embedded.isNil
    /\ embedded' = Shutdown(embedded)
    /\ lastEmb' = [NoEmbCall EXCEPT !.start = lastEmb.start, !.op = "Shutdown"]
    /\ UNCHANGED outsideNatstools

NextEmbedded ==
    \/ StartEmbedded
    \/ StartEmbeddedInProcess
    \/ StartEmbeddedWithOptions
    \/ ConnectionCall
    \/ JetStreamCall
    \/ ClientURLCall
    \/ NewTCPConnectionCall
    \/ ShutdownCall

SpecEmbedded == Init /\ [][NextEmbedded]_vars

\* ================================================================== RequestAsync
\* natsservice.RequestAsync(nc, subject, request, handler), statement by
\* statement, beside the responders and the connection that delivers replies.
Subjects == {EmptyString, <<"svc.echo">>}
\* a value that marshals, one json.Marshal refuses, one above the max payload
Requests == {"request", "chan", "big"}

\* nc.Subscribe(inbox, handler): [conn, err]
natsSubscribe(conn, inbox) ==
    IF conn.status # "connected"
    THEN [conn |-> conn, err |-> <<"nats: connection closed">>]
    ELSE [conn |-> [conn EXCEPT !.subs = Put(@, inbox, [max |-> 0, delivered |-> 0])],
          err |-> NoError]

\* sub.AutoUnsubscribe(max), whose error RequestAsync does not read
natsAutoUnsubscribe(conn, inbox, max) ==
    IF conn.status # "connected" \/ inbox \notin DOMAIN conn.subs THEN conn
    ELSE IF conn.subs[inbox].delivered >= max
    THEN [conn EXCEPT !.subs = Del(@, inbox)]
    ELSE [conn EXCEPT !.subs[inbox].max = max]

\* nc.PublishRequest(subject, reply, data): the error
natsPublishRequest(conn, subject, payload) ==
    IF conn.status # "connected" THEN <<"nats: connection closed">>
    ELSE IF subject = EmptyString THEN <<"nats: invalid subject">>
    ELSE IF payload = "big" THEN <<"nats: maximum payload exceeded">>
    ELSE NoError

\* a message for the inbox reaches the connection: [conn, handled], the
\* handler run when a subscription takes it, the subscription removed at its max
natsDeliver(conn, inbox) ==
    IF conn.status # "connected" \/ inbox \notin DOMAIN conn.subs
    THEN [conn |-> conn, handled |-> FALSE]
    ELSE LET sub == conn.subs[inbox]
         IN  IF sub.max > 0 /\ sub.delivered + 1 >= sub.max
             THEN [conn |-> [conn EXCEPT !.subs = Del(@, inbox)], handled |-> TRUE]
             ELSE [conn |-> [conn EXCEPT !.subs[inbox].delivered = @ + 1],
                   handled |-> TRUE]

reqReturned(r, err) == [r EXCEPT !.pc = "returned", !.ret = err]

\* the call up to inbox := nats.NewInbox()
RequestAsync ==
    /\ req.pc \in {"idle", "returned"}
    /\ req.calls < MaxCalls
    /\ \E nilConn \in BOOLEAN, subject \in Subjects, request \in Requests :
          LET r == [req EXCEPT !.calls = @ + 1, !.inbox = req.calls + 1,
                               !.subject = subject, !.payload = request,
                               !.published = FALSE, !.subscribedFirst = FALSE,
                               !.ret = NoError]
          IN  req' = IF nilConn THEN reqReturned(r, <<"NATS connection is nil">>)
                     ELSE IF natsConn.status # "connected"
                     THEN reqReturned(r, <<"NATS connection is not active">>)
                     ELSE IF request = "chan"
                     THEN reqReturned(r, Wrap("failed to marshal request",
                                              <<"json: unsupported type">>))
                     ELSE [r EXCEPT !.pc = "subscribe"]
    /\ UNCHANGED <<natsConn, replies, outsideRequest>>

\* sub, err := nc.Subscribe(inbox, handler)
ReqSubscribe ==
    /\ req.pc = "subscribe"
    /\ LET res == natsSubscribe(natsConn, req.inbox)
       IN  /\ natsConn' = res.conn
           /\ req' = IF res.err # NoError
                      THEN reqReturned(req, Wrap("failed to subscribe for response", res.err))
                      ELSE [req EXCEPT !.pc = "autoUnsubscribe"]
    /\ UNCHANGED <<replies, outsideRequest>>

\* sub.AutoUnsubscribe(1)
ReqAutoUnsubscribe ==
    /\ req.pc = "autoUnsubscribe"
    /\ natsConn' = natsAutoUnsubscribe(natsConn, req.inbox, 1)
    /\ req' = [req EXCEPT !.pc = "publish"]
    /\ UNCHANGED <<replies, outsideRequest>>

\* err = nc.PublishRequest(subject, inbox, reqData) and the return
ReqPublish ==
    /\ req.pc = "publish"
    /\ LET err == natsPublishRequest(natsConn, req.subject, req.payload)
       IN  req' = IF err # NoError
                  THEN reqReturned(req, Wrap("failed to publish request", err))
                  ELSE reqReturned([req EXCEPT !.published = TRUE,
                                               !.subscribedFirst =
                                                   req.inbox \in DOMAIN natsConn.subs],
                                   NoError)
    /\ UNCHANGED <<natsConn, replies, outsideRequest>>

\* a responder that received the request answers on its reply subject
Respond ==
    /\ req.published
    /\ Len(replies) < MaxReplies
    /\ replies' = Append(replies, req.inbox)
    /\ UNCHANGED <<natsConn, req, outsideRequest>>

\* the connection receives a reply and dispatches it
DeliverReply ==
    /\ replies # << >>
    /\ LET res == natsDeliver(natsConn, Head(replies))
       IN  /\ natsConn' = res.conn
           /\ req' = IF res.handled
                      THEN [req EXCEPT !.handled[Head(replies)] = @ + 1]
                      ELSE req
    /\ replies' = Tail(replies)
    /\ UNCHANGED outsideRequest

\* nc.Close(): the connection and its subscriptions are gone
ConnClosed ==
    /\ natsConn.status = "connected"
    /\ natsConn' = [status |-> "closed", subs |-> EmptyMap]
    /\ UNCHANGED <<req, replies, outsideRequest>>

NextRequest ==
    \/ RequestAsync
    \/ ReqSubscribe
    \/ ReqAutoUnsubscribe
    \/ ReqPublish
    \/ Respond
    \/ DeliverReply
    \/ ConnClosed

SpecRequest == Init /\ [][NextRequest]_vars

\* ================================================================== claims
IsPtrToStruct(rt) == Kind(rt) = "ptr" /\ Kind(Elem(rt)) = "struct"
RegisterOps == {"Register", "RegisterWithMetadata", "RegisterWithValidation"}
\* the names that point to primary p: p and the aliases mapped to it
AliasesOf(r, p) == {a \in DOMAIN r.aliases : r.aliases[a] = p}
\* entries that name a registered name, and the batches built around one of them
ExistingEntries == {TypeEntry(n, rt) : n \in DOMAIN types, rt \in {"*User", "User"}}
BatchesOnExisting ==
    {<<e>> : e \in ExistingEntries} \cup {<<x, e>> : e \in ExistingEntries, x \in TypeEntries}
WellFormed(entry) == nameRegexMatch(entry.Name) /\ IsPtrToStruct(entry.Type)

\* C1 (as stated): registering a registered primary name fails with
\* ErrTypeAlreadyExists whichever Go type is offered and whichever entry point is
\* used, and leaves the three maps unchanged.
C1_AlreadyExistsWhicheverType ==
    \A name \in DOMAIN types :
        /\ \A T \in ElemTypes, m \in Metadatas, v \in Validators :
               registerWithOptions(Cur, name, PtrTo(T), m, v)
                   = [err |-> "ErrTypeAlreadyExists", reg |-> Cur]
        /\ \A rt \in {"*User", "*string", "User"} :
               registerBatch(Cur, <<TypeEntry(name, rt)>>)
                   = [err |-> "ErrTypeAlreadyExists", reg |-> Cur]

\* C1 (amended): registering a registered primary name always fails and leaves the
\* three maps unchanged; the error is ErrTypeAlreadyExists when the type offered is
\* a pointer to a struct and ErrTypeNotValid when it is not (the type is checked
\* before the name map); a batch holding such an entry never succeeds, and returns
\* ErrTypeAlreadyExists when all its entries are well-formed.
C1_AlreadyExistsForStructTypes ==
    /\ \A name \in DOMAIN types :
           \A T \in ElemTypes, m \in Metadatas, v \in Validators :
               registerWithOptions(Cur, name, PtrTo(T), m, v)
                   = [err |-> IF T \in StructTypes THEN "ErrTypeAlreadyExists"
                              ELSE "ErrTypeNotValid",
                      reg |-> Cur]
    /\ \A T \in StructTypes :
           inferTypeName(PtrTo(T)) \in DOMAIN types =>
               registerWithOptions(Cur, EmptyName, PtrTo(T), "nil", "nil")
                   = [err |-> "ErrTypeAlreadyExists", reg |-> Cur]
    /\ \A entries \in BatchesOnExisting :
           LET res == registerBatch(Cur, entries)
           IN  /\ res.err # "nil"
               /\ res.reg = Cur
               /\ (\A i \in 1..Len(entries) : WellFormed(entries[i]))
                      => res.err = "ErrTypeAlreadyExists"

\* a registration entry point has just refused a registered name
C1_Witness ==
    /\ last.op \in RegisterOps
    /\ last.err = "ErrTypeAlreadyExists"
    /\ types # EmptyMap

RegisteredTypes(r) == {Elem(r.types[n].Type) : n \in DOMAIN r.types}
\* the values of a struct type, handed over by pointer or by value
ValuesOf(T) == {v \in Values : Elem(v.type) = T} \cup {Value(T, v.fields) : v \in {w \in Values : Elem(w.type) = T}}
\* the values no validation function of the tests rejects
AcceptedValues == {v \in Values : validateOk("ageNotNegative", v) \/ v.type # "*User"}

\* C2: after a successful Unregister(n), n a primary name or an alias, the primary
\* name and every alias that pointed to it are gone: New, GetTypeInfo and
\* UnmarshalType on each of them return ErrTypeNotRegistered, Registered() does not
\* list the primary name, and a second Unregister(n) returns ErrTypeNotRegistered.
C2_UnregisterRemovesNameAndAliases ==
    \A n \in ValidNames :
        LET res == unregister(Cur, n)
            p == resolveName(Cur, n)
        IN  res.err = "nil" =>
                /\ \A m \in {p} \cup AliasesOf(Cur, p) :
                       /\ New(res.reg, m).err = "ErrTypeNotRegistered"
                       /\ GetTypeInfo(res.reg, m).err = "ErrTypeNotRegistered"
                       /\ \A d \in Datas :
                              UnmarshalType(res.reg, m, d).err = "ErrTypeNotRegistered"
                /\ p \notin Registered(res.reg)
                /\ unregister(res.reg, n).err = "ErrTypeNotRegistered"

\* C3: Marshal then Unmarshal round-trips: for any value whose struct type is
\* registered (here: any such value that no validation function rejects), Marshal
\* succeeds and Unmarshal of its output returns a pointer to an equal value of the
\* same type.
C3_MarshalUnmarshalRoundTrip ==
    \A v \in AcceptedValues :
        Elem(v.type) \in RegisteredTypes(Cur) =>
            LET m == Marshal(Cur, v)
            IN  /\ m.err = "nil"
                /\ Unmarshal(Cur, m.val) = Ret("nil", v)

\* C5: no name is at once a registered primary name and an alias, and every alias
\* maps to a primary name that is registered.
C5_NamesAndAliasesDisjoint ==
    /\ DOMAIN types \cap DOMAIN aliases = {}
    /\ \A a \in DOMAIN aliases : aliases[a] \in DOMAIN types

\* C7: for a type registered with a validation function, under its primary name
\* and under every alias, on every unmarshal path, a decoded value the function
\* rejects is answered with ErrUnmarshal and no value.
C7_ValidationOnEveryPath ==
    \A p \in DOMAIN types :
        types[p].Validate # "nil" =>
            \A n \in {p} \cup AliasesOf(Cur, p), d \in Datas :
                LET dec == jsonUnmarshal(d, Elem(types[p].Type))
                IN  (~dec.err /\ ~validateOk(types[p].Validate, dec.val)) =>
                        /\ UnmarshalType(Cur, n, d) = Ret("ErrUnmarshal", NilValue)
                        /\ Unmarshal(Cur, TypedBytes(n, d)) = Ret("ErrUnmarshal", NilValue)
                        /\ UnmarshalTypedData(Cur, TypedBytes(n, d))
                               = Ret("ErrUnmarshal", NilValue)

\* C8: while alias a maps to primary p, New(a), UnmarshalType(a, data) and
\* GetTypeInfo(a) behave as the same call on p, and GetTypeInfo(p).Aliases holds a.
C8_AliasBehavesAsPrimary ==
    \A a \in DOMAIN aliases :
        LET p == aliases[a]
        IN  /\ New(Cur, a) = New(Cur, p)
            /\ GetTypeInfo(Cur, a) = GetTypeInfo(Cur, p)
            /\ \A d \in Datas : UnmarshalType(Cur, a, d) = UnmarshalType(Cur, p, d)
            /\ \E i \in DOMAIN GetTypeInfo(Cur, p).val.Aliases :
                   GetTypeInfo(Cur, p).val.Aliases[i] = a

\* C9: for every struct type registered under at least one name, NameOf of a value
\* of the type, or of a pointer to one, succeeds and returns a registered name
\* (that the name returned is one of that very type is C29's subject).
C9_NameOfRegisteredType ==
    \A T \in RegisteredTypes(Cur) :
        \A v \in ValuesOf(T) :
            LET n == NameOf(Cur, v)
            IN  /\ n.err = "nil"
                /\ n.val \in DOMAIN types

\* the entries the batch claims range over: those of the calls and one that
\* offers a struct, not a pointer, under an explicit name
ClaimEntries == TypeEntries \cup {TypeEntry(<<"a">>, "User"), TypeEntry(<<"a">>, "*User")}
ClaimBatches == UNION {[1..k -> ClaimEntries] : k \in 0..MaxBatch}
BadEntry(r, entry) ==
    \/ ~IsPtrToStruct(entry.Type)
    \/ ~nameRegexMatch(entryName(entry))
    \/ entryName(entry) \in DOMAIN r.types

\* C10: RegisterBatch is all-or-nothing: with an entry of invalid name, of a type
\* that is no pointer to a struct, or of a registered name, it returns the error
\* and leaves the registry unchanged; when it succeeds every entry is registered.
C10_BatchAllOrNothing ==
    \A entries \in ClaimBatches :
        LET res == registerBatch(Cur, entries)
        IN  /\ (\E i \in 1..Len(entries) : BadEntry(Cur, entries[i])) =>
                   /\ res.err \in {"ErrTypeNotValid", "ErrTypeAlreadyExists"}
                   /\ res.reg = Cur
            /\ res.err = "nil" =>
                   \A i \in 1..Len(entries) :
                       /\ entryName(entries[i]) \in DOMAIN res.reg.types
                       /\ res.reg.types[entryName(entries[i])]
                              = TypeInfo(entries[i].Type, entries[i].Metadata,
                                         entries[i].Validate)

\* ---------------------------------------------------------------- C6
\* a goroutine between its Lock/RLock and its Unlock/RUnlock
InLock(t) == pc[t] \notin {"idle", "lock", "use", "decode", "return"}
\* while a writer is between Lock and Unlock no other goroutine is in the lock
WritersExclusive ==
    \A t \in Goroutines, u \in Goroutines :
        t # u /\ InLock(t) /\ loc[t].op \in WriterOps => ~InLock(u)
\* the registry a reader sees does not change while it reads
ReadersSeeNoMutation ==
    \A t \in Goroutines :
        InLock(t) /\ loc[t].op \in ReaderOps => Cur = loc[t].snap
SameResult(l, ret) == l.err = ret.err /\ (l.err = "nil" => l.val = ret.val)
\* what an operation returns and leaves behind is what the operation run in one
\* step on the registry it found when it got the lock returns and leaves behind
ResultsSequential ==
    \A t \in Goroutines :
        LET l == loc[t]
            done == [err |-> l.err, reg |-> Cur]
        IN  /\ pc[t] = "unlock" =>
                   CASE l.op = "Register" ->
                            done = registerWithOptions(l.snap, l.arg, "*User", "nil", "nil")
                     [] l.op = "AddAlias" -> done = addAlias(l.snap, l.arg, l.primary)
                     [] l.op = "RegisterBatch" -> done = registerBatch(l.snap, ConcBatch)
                     [] l.op = "Unregister" -> done = unregister(l.snap, l.arg)
                     [] l.op = "Clear" -> done = clear(l.snap)
                     [] l.op = "New" -> SameResult(l, New(l.snap, l.arg))
                     [] l.op = "GetTypeInfo" -> SameResult(l, GetTypeInfo(l.snap, l.arg))
                     [] l.op = "NameOf" ->
                            LET ret == NameOf(l.snap, UserOf("n", 1))
                            IN  l.err = ret.err /\ (l.err = "nil" => l.names = {ret.val})
                     [] l.op = "Registered" -> l.names = Registered(l.snap)
                     [] l.op = "FindByNamespace" -> l.names = FindByNamespace(l.snap, l.arg)
                     [] OTHER -> TRUE
            /\ pc[t] = "return" /\ l.op = "UnmarshalType" =>
                   SameResult(l, UnmarshalType(l.snap, l.arg, ConcData))
\* no read of the alias list of a TypeInfo is left unordered with a write of it
AliasListReadsOrdered ==
    \A t \in Goroutines : pc[t] \in {"use", "return"} => ~loc[t].raced

\* C6: all registry operations are thread-safe: every read and every mutation of
\* the name map, the reverse type map, the alias map and the alias list of a
\* TypeInfo is ordered by the RWMutex, writers exclusive, so concurrent calls
\* behave as in some sequential order and no caller sees a half-applied mutation.
C6_ThreadSafe ==
    /\ WritersExclusive
    /\ ReadersSeeNoMutation
    /\ ResultsSequential
    /\ AliasListReadsOrdered
\* what holds of C6: the three maps are read and written under the lock only
C6_MapsUnderLock == WritersExclusive /\ ReadersSeeNoMutation /\ ResultsSequential

\* ---------------------------------------------------------------- C11
\* the batches of two entries that carry one name, explicit or inferred
SameNameBatches ==
    {entries \in ClaimBatches :
         /\ Len(entries) = 2
         /\ \A i \in 1..2 : IsPtrToStruct(entries[i].Type)
         /\ \A i \in 1..2 : nameRegexMatch(entryName(entries[i]))
         /\ entryName(entries[1]) = entryName(entries[2])}

\* C11: RegisterBatch called with two entries that carry the same name returns
\* ErrTypeAlreadyExists and registers neither, so no registration replaces another.
C11_DuplicateInBatchRefused ==
    \A entries \in SameNameBatches :
        registerBatch(Cur, entries) = [err |-> "ErrTypeAlreadyExists", reg |-> Cur]

\* ---------------------------------------------------------------- C12
AliasArgs == ValidNames \cup {BadName}

\* C12 (as stated): AddAlias fails with ErrTypeNotRegistered whenever the primary
\* is not a registered primary name, with ErrTypeAlreadyExists whenever the alias
\* is an alias or a registered primary name, and changes nothing when it fails.
C12_AliasErrorsAsStated ==
    \A alias \in AliasArgs, primaryName \in ValidNames :
        LET res == addAlias(Cur, alias, primaryName)
        IN  /\ primaryName \notin DOMAIN types
                   => res = [err |-> "ErrTypeNotRegistered", reg |-> Cur]
            /\ primaryName \in DOMAIN types
                   /\ (alias \in DOMAIN aliases \/ alias \in DOMAIN types)
                   => res = [err |-> "ErrTypeAlreadyExists", reg |-> Cur]

\* C12 (amended): AddAlias checks the alias's syntax first: an alias that does
\* not match the name pattern fails with ErrTypeNotValid; otherwise a primary
\* that is not a registered primary name fails with ErrTypeNotRegistered;
\* otherwise an alias that is an alias or a registered primary name fails with
\* ErrTypeAlreadyExists; every failure leaves the registry unchanged and every
\* other call succeeds, recording the alias in the alias map and in the primary's
\* alias list. No alias outlives its primary, so its name is free again.
C12_AliasErrorsInOrder ==
    /\ \A alias \in AliasArgs, primaryName \in ValidNames :
           LET res == addAlias(Cur, alias, primaryName)
           IN  IF ~nameRegexMatch(alias)
               THEN res = [err |-> "ErrTypeNotValid", reg |-> Cur]
               ELSE IF primaryName \notin DOMAIN types
               THEN res = [err |-> "ErrTypeNotRegistered", reg |-> Cur]
               ELSE IF alias \in DOMAIN aliases \/ alias \in DOMAIN types
               THEN res = [err |-> "ErrTypeAlreadyExists", reg |-> Cur]
               ELSE /\ res.err = "nil"
                    /\ res.reg.aliases = Put(aliases, alias, primaryName)
                    /\ res.reg.types[primaryName].Aliases
                           = Append(types[primaryName].Aliases, alias)
                    /\ res.reg.rtypes = rtypes
    /\ \A a \in DOMAIN aliases : aliases[a] \in DOMAIN types
    /\ last.op = "Unregister" /\ last.err = "nil" => last.name \notin DOMAIN aliases

\* AddAlias has just refused an ill-formed alias on a name that is not registered
C12_Witness ==
    /\ last.op = "AddAlias"
    /\ last.err = "ErrTypeNotValid"
    /\ last.name \notin DOMAIN types

\* ---------------------------------------------------------------- C13
InternalError == Response("500", "internal error")
Sends(sent, response) == \E k \in DOMAIN sent : sent[k] = response

\* C13: for an endpoint of the service whose Handle defers RecoverPanic, a panic
\* raised in Handle does not leave Handle and the client is sent the "500"
\* "internal error" response, after whatever Handle had sent; when Handle does not
\* panic RecoverPanic sends nothing.
C13_PanicRecoveredAsInternalError ==
    /\ service.microSvc = "running" =>
           \A i \in DOMAIN endpoints, panics \in BOOLEAN, early \in BOOLEAN :
               LET e == endpoints[i].Handler
                   res == handle(e, attached, panics, early)
               IN  /\ ~res.escaped
                   /\ panics => Len(res.sent) > 0 /\ res.sent[Len(res.sent)] = InternalError
                   /\ ~panics => /\ ~Sends(res.sent, InternalError)
                                 /\ RecoverPanic(e, attached, FALSE).sent = << >>
    /\ lastSvc.op = "Handle" =>
           /\ ~lastSvc.escaped
           /\ lastSvc.panicked <=> Sends(lastSvc.sent, InternalError)

\* a handler of the service has just panicked
C13_Witness ==
    /\ lastSvc.op = "Handle"
    /\ lastSvc.panicked
    /\ service.microSvc = "running"

\* ---------------------------------------------------------------- C14
MissingField(config) ==
    \/ config.Ctx = "nil"
    \/ config.Nc = "nil"
    \/ config.Logger = "nil"
    \/ config.Name = EmptyString
    \/ config.Version = EmptyString

\* C14: StartService validates the config before it touches the messaging
\* library: with Ctx, Nc or Logger nil, or Name or Version empty, it returns an
\* error wrapping "invalid service config" and creates no micro service; only a
\* config that passes Validate leads to micro.AddService.
C14_ValidatedBeforeMicro ==
    /\ \A config \in Configs :
           LET res == startService(config)
           IN  /\ MissingField(config) =>
                      /\ Len(res.err) > 1 /\ res.err[1] = "invalid service config"
                      /\ ~res.microCalled
                      /\ res.svc.microSvc = "nil"
               /\ res.microCalled <=> ~MissingField(config)
               /\ res.microCalled <=> Validate(config) = NoError
    /\ lastSvc.op = "StartService" /\ ~lastSvc.microCalled =>
           /\ lastSvc.err # NoError /\ lastSvc.err[1] = "invalid service config"
           /\ service.microSvc = "nil"
           /\ endpoints = << >>

\* StartService has just refused a config
C14_Witness ==
    /\ lastSvc.op = "StartService"
    /\ lastSvc.err # NoError
    /\ lastSvc.err[1] = "invalid service config"

\* ---------------------------------------------------------------- C15
\* the README's quick start: Ctx, Nc, Logger and Name, nothing else
ReadmeConfig == ServiceConfig("ctx", "nc", "log", <<"demo">>, EmptyString, EmptyString)

\* C15: the configuration of the README's quick start is accepted by
\* StartService: on a working connection it returns no error and a started service.
C15_QuickStartAccepted ==
    service.microSvc # "running" =>
        LET res == startService(ReadmeConfig)
        IN  /\ res.err = NoError
            /\ res.svc.microSvc = "running"

\* ---------------------------------------------------------------- C16
\* the subject the claim gives an endpoint of config c in a service of group g
SubjectOrName(c) == IF c.Subject # EmptyString THEN c.Subject ELSE c.Name
GroupSubject(g, c) ==
    IF g # EmptyString THEN g \o <<".">> \o SubjectOrName(c) ELSE SubjectOrName(c)

\* C16: with a non-empty Group every endpoint added with AddEndpoint is
\* registered in that group, on Group + "." + (its Subject if set, else its
\* Name); with an empty Group it is registered on its Subject or Name.
C16_SubjectIsGroupDotEndpoint ==
    /\ \A i \in DOMAIN endpoints :
           endpoints[i].Subject = GroupSubject(service.config.Group, ConfigOf(endpoints[i].Handler))
    /\ service.microSvc = "running" =>
           \A e \in Endpointers :
               LET res == addEndpoint(service, attached, endpoints, e)
               IN  res.err = NoError =>
                       /\ Len(res.endpoints) = Len(endpoints) + 1
                       /\ res.endpoints[Len(res.endpoints)].Subject
                              = GroupSubject(service.config.Group, ConfigOf(e))
                       /\ res.endpoints[Len(res.endpoints)].Handler = e

\* an endpoint with a custom subject stands in a service that has a group
C16_Witness ==
    /\ service.config.Group # EmptyString
    /\ \E i \in DOMAIN endpoints :
           /\ ConfigOf(endpoints[i].Handler).Subject # EmptyString
           /\ endpoints[i].Subject = service.config.Group \o <<".">> \o <<"math", ".", "add">>
\* ------------------------------------------------------------------ C17
\* the goroutines inside m.mu, after their read or write of m.data
KvInLock == {t \in KvGoroutines : kvpc[t] = "unlock"}

\* a goroutine that writes m.data is alone between Lock and Unlock
KvWritersExclusive ==
    \A t, u \in KvGoroutines :
        (t # u /\ kvpc[t] \in {"access", "unlock"} /\ kvloc[t].op \in MemoryKVWrites)
            => kvpc[u] \notin {"access", "unlock"}

\* what a call has done when it releases m.mu, read off the map itself
KvMapStep(l, d) ==
    CASE l.op = "Get" ->
            IF l.key \in DOMAIN d
            THEN l.res.err = NoError /\ l.res.val = d[l.key]
            ELSE l.res.err = ErrKeyNotFound
      [] l.op = "Exists" -> l.res.err = NoError /\ l.res.exists = (l.key \in DOMAIN d)
      [] l.op = "Set" -> l.res.err = NoError /\ d = Put(l.snap, l.key, l.value)
      [] l.op \in {"Delete", "DeleteTyped"} ->
            /\ l.res.err = NoError
            /\ d = Del(l.snap, l.key)
            /\ l.key \notin DOMAIN l.snap => d = l.snap
      [] OTHER -> TRUE

\* one call after another on the store as it is now
KvMapCalls(m) ==
    \A k \in NonEmptyKeys :
        /\ \A v \in ByteValues :
              LET set == memSet(m, k, v, << >>)
              IN  /\ set.err = NoError
                  /\ memGet(set.kv, k).err = NoError
                  /\ memGet(set.kv, k).val = v
                  /\ memExists(set.kv, k).exists
                  /\ \A j \in NonEmptyKeys \ {k} :
                        /\ memGet(set.kv, j).err = memGet(m, j).err
                        /\ memGet(set.kv, j).val = memGet(m, j).val
        /\ memDelete(m, k).err = NoError
        /\ memGet(memDelete(m, k).kv, k).err = ErrKeyNotFound
        /\ ~memExists(memDelete(m, k).kv, k).exists
        /\ memExists(memDelete(m, k).kv, k).err = NoError
        /\ k \notin DOMAIN m.data => memDelete(m, k).kv = m

\* C17: the in-memory store is a map from non-empty keys to byte values.  Under
\* any interleaving of two goroutines a writer is alone inside m.mu, Get
\* returns the bytes the map holds for the key (nil for a stored nil) and
\* ErrKeyNotFound for a key it does not hold, Exists tells whether the map
\* holds the key, Set puts its value at its key and leaves the other keys, and
\* Delete removes its key, returns no error and changes nothing when the key
\* is absent; the same holds call after call from every state reached.
C17_MemoryKVIsMap ==
    /\ KvWritersExclusive
    /\ \A t \in KvInLock : KvMapStep(kvloc[t], memkv.data)
    /\ KvMapCalls(memkv)

\* a Get has read a stored nil and holds m.mu while the other goroutine waits
\* to delete that key
C17_Witness ==
    \E t, u \in KvGoroutines :
        /\ t # u
        /\ kvpc[t] = "unlock" /\ kvloc[t].op = "Get"
        /\ kvloc[t].key \in DOMAIN memkv.data
        /\ memkv.data[kvloc[t].key] = NilBytes
        /\ kvloc[t].res.err = NoError /\ kvloc[t].res.val = NilBytes
        /\ kvpc[u] = "lock" /\ kvloc[u].op = "Delete" /\ kvloc[u].key = kvloc[t].key

\* ------------------------------------------------------------------ C18
\* the values handed to SetTyped: of a registered type, of another type, nil
TypedArgs == Values \cup {NilValue}
\* the call returned ErrEmptyKey and left the store kv as it was
RefusedEmptyKey(res, kv) == res.err = ErrEmptyKey /\ res.kv = kv

\* C18: every operation called with the empty key returns ErrEmptyKey and
\* leaves the store unchanged: Set, Get, Delete and Exists of both stores, and
\* SetTyped, GetTyped and DeleteTyped of a store that has a registry, whatever
\* the value and the options.
C18_EmptyKeyRefused ==
    /\ \A value \in ByteValues, opts \in SetOptions :
          RefusedEmptyKey(memSet(memkv, "", value, opts), memkv)
    /\ RefusedEmptyKey(memGet(memkv, ""), memkv)
    /\ RefusedEmptyKey(memDelete(memkv, ""), memkv)
    /\ RefusedEmptyKey(memExists(memkv, ""), memkv)
    /\ memkv.hasRegistry =>
          /\ \A value \in TypedArgs, opts \in SetOptions :
                RefusedEmptyKey(memSetTyped(memkv, Cur, "", value, opts), memkv)
          /\ RefusedEmptyKey(memGetTyped(memkv, Cur, ""), memkv)
          /\ RefusedEmptyKey(memDeleteTyped(memkv, ""), memkv)
    /\ \A down \in BOOLEAN :
          /\ \A value \in ByteValues, opts \in SetOptions :
                RefusedEmptyKey(jsSet(jskv, "", value, opts, down), jskv)
          /\ RefusedEmptyKey(jsGet(jskv, "", down), jskv)
          /\ RefusedEmptyKey(jsDelete(jskv, "", down), jskv)
          /\ RefusedEmptyKey(jsExists(jskv, "", down), jskv)
          /\ jskv.hasRegistry =>
                /\ \A value \in TypedArgs, opts \in SetOptions :
                      RefusedEmptyKey(jsSetTyped(jskv, Cur, "", value, opts, down), jskv)
                /\ RefusedEmptyKey(jsGetTyped(jskv, Cur, "", down), jskv)
                /\ RefusedEmptyKey(jsDeleteTyped(jskv, "", down), jskv)

\* the same without SetTyped of the JetStream-backed store: holds
C18_EmptyKeyRefusedButJsSetTyped ==
    /\ \A value \in ByteValues, opts \in SetOptions :
          RefusedEmptyKey(memSet(memkv, "", value, opts), memkv)
    /\ RefusedEmptyKey(memGet(memkv, ""), memkv)
    /\ RefusedEmptyKey(memDelete(memkv, ""), memkv)
    /\ RefusedEmptyKey(memExists(memkv, ""), memkv)
    /\ memkv.hasRegistry =>
          /\ \A value \in TypedArgs, opts \in SetOptions :
                RefusedEmptyKey(memSetTyped(memkv, Cur, "", value, opts), memkv)
          /\ RefusedEmptyKey(memGetTyped(memkv, Cur, ""), memkv)
          /\ RefusedEmptyKey(memDeleteTyped(memkv, ""), memkv)
    /\ \A down \in BOOLEAN :
          /\ \A value \in ByteValues, opts \in SetOptions :
                RefusedEmptyKey(jsSet(jskv, "", value, opts, down), jskv)
          /\ RefusedEmptyKey(jsGet(jskv, "", down), jskv)
          /\ RefusedEmptyKey(jsDelete(jskv, "", down), jskv)
          /\ RefusedEmptyKey(jsExists(jskv, "", down), jskv)
          /\ jskv.hasRegistry =>
                /\ RefusedEmptyKey(jsGetTyped(jskv, Cur, "", down), jskv)
                /\ RefusedEmptyKey(jsDeleteTyped(jskv, "", down), jskv)

\* ------------------------------------------------------------------ C19
\* the call returned an error and stored nothing
RefusedTTL(res, kv) == res.err # NoError /\ res.kv = kv

\* C19: Set and SetTyped with the WithTTL option return an error and store
\* nothing, for every duration handed to WithTTL, for every key and value, and
\* for both stores.
C19_WithTTLRefused ==
    \A d \in Durations, key \in KvKeys :
        /\ \A value \in ByteValues :
              /\ RefusedTTL(memSet(memkv, key, value, <<WithTTL(d)>>), memkv)
              /\ \A down \in BOOLEAN :
                    RefusedTTL(jsSet(jskv, key, value, <<WithTTL(d)>>, down), jskv)
        /\ \A value \in TypedArgs :
              /\ RefusedTTL(memSetTyped(memkv, Cur, key, value, <<WithTTL(d)>>), memkv)
              /\ \A down \in BOOLEAN :
                    RefusedTTL(jsSetTyped(jskv, Cur, key, value, <<WithTTL(d)>>, down), jskv)

\* the same for the durations above zero only: holds
C19_PositiveTTLRefused ==
    \A d \in {x \in Durations : x > 0}, key \in KvKeys :
        /\ \A value \in ByteValues :
              /\ RefusedTTL(memSet(memkv, key, value, <<WithTTL(d)>>), memkv)
              /\ \A down \in BOOLEAN :
                    RefusedTTL(jsSet(jskv, key, value, <<WithTTL(d)>>, down), jskv)
        /\ \A value \in TypedArgs :
              /\ RefusedTTL(memSetTyped(memkv, Cur, key, value, <<WithTTL(d)>>), memkv)
              /\ \A down \in BOOLEAN :
                    RefusedTTL(jsSetTyped(jskv, Cur, key, value, <<WithTTL(d)>>, down), jskv)

\* ------------------------------------------------------------------ C20
\* C20: typed storage round-trips.  On a store that has a registry, for a value
\* v whose struct type is registered (and that no validation function rejects)
\* and a non-empty key k, SetTyped(k, v) succeeds, GetTyped(k) right after it
\* returns a pointer to an equal value of the same type, DeleteTyped(k)
\* succeeds and GetTyped(k) after it returns ErrKeyNotFound; for the in-memory
\* store and for the JetStream-backed store with its connection up.
C20_TypedRoundTrip ==
    \A v \in AcceptedValues, k \in NonEmptyKeys :
        Elem(v.type) \in RegisteredTypes(Cur) =>
            /\ memkv.hasRegistry =>
                  LET set == memSetTyped(memkv, Cur, k, v, << >>)
                      got == memGetTyped(set.kv, Cur, k)
                      del == memDeleteTyped(set.kv, k)
                  IN  /\ set.err = NoError
                      /\ got.err = NoError /\ got.typed = v
                      /\ del.err = NoError
                      /\ memGetTyped(del.kv, Cur, k).err = ErrKeyNotFound
            /\ jskv.hasRegistry =>
                  LET set == jsSetTyped(jskv, Cur, k, v, << >>, FALSE)
                      got == jsGetTyped(set.kv, Cur, k, FALSE)
                      del == jsDeleteTyped(set.kv, k, FALSE)
                  IN  /\ set.err = NoError
                      /\ got.err = NoError /\ got.typed = v
                      /\ del.err = NoError
                      /\ jsGetTyped(del.kv, Cur, k, FALSE).err = ErrKeyNotFound

\* ------------------------------------------------------------------ C29
\* C29: the reverse type map agrees with the name map.  Whenever NameOf(v)
\* returns a name n, n is a registered primary name, the type registered under
\* n is v's struct type, New(n) returns a pointer to that type and
\* UnmarshalType(n, data) returns either an error or a pointer to that type.
C29_ReverseMapAgrees ==
    \A v \in Values :
        LET n == NameOf(Cur, v)
        IN  n.err = "nil" =>
                /\ n.val \in DOMAIN types
                /\ Elem(types[n.val].Type) = Elem(v.type)
                /\ New(Cur, n.val).err = "nil"
                /\ New(Cur, n.val).val.type = PtrTo(Elem(v.type))
                /\ LET dec == UnmarshalType(Cur, n.val, jsonMarshal(v))
                   IN  dec.err = "nil" => dec.val.type = PtrTo(Elem(v.type))

\* ------------------------------------------------------------------ C30
\* how often alias a stands in the list
CountIn(list, a) == Cardinality({i \in DOMAIN list : list[i] = a})

\* C30: the alias map and the alias lists of the TypeInfos agree.  Alias a maps
\* to primary p exactly when p is registered and a stands in p's Aliases list,
\* where it stands once; no alias maps to a name that is not registered.
C30_AliasMapAgreesWithLists ==
    /\ \A a \in DOMAIN aliases :
          /\ aliases[a] \in DOMAIN types
          /\ CountIn(types[aliases[a]].Aliases, a) = 1
    /\ \A p \in DOMAIN types :
          \A i \in DOMAIN types[p].Aliases :
              LET a == types[p].Aliases[i]
              IN  /\ a \in DOMAIN aliases
                  /\ aliases[a] = p
                  /\ CountIn(types[p].Aliases, a) = 1

\* Unregister has removed a name together with its aliases while another
\* registered name keeps its own alias
C30_Witness ==
    /\ last.op = "Unregister"
    /\ last.err = "nil"
    /\ aliases # EmptyMap
    /\ \E p \in DOMAIN types : Len(types[p].Aliases) > 0

\* ------------------------------------------------------------------ C26
\* C26: every endpoint that AddEndpoint has registered with the micro service
\* carries the metadata of its EndpointConfig: exactly that metadata when it is
\* non-empty, none when it is empty.
C26_MetadataRegistered ==
    \A i \in DOMAIN endpoints :
        endpoints[i].Metadata = ConfigOf(endpoints[i].Handler).Metadata

\* ------------------------------------------------------------------ C27
\* AddEndpoint rejects the endpointer: it is nil, its Config() is nil, or its
\* name is empty
Rejected(e) == e = "nil" \/ ConfigOf(e).isNil \/ ConfigOf(e).Name = EmptyString
\* the place of the first rejected endpointer of the list, 0 when there is none
FirstRejected(list) ==
    IF \A i \in DOMAIN list : ~Rejected(list[i]) THEN 0
    ELSE CHOOSE i \in DOMAIN list : Rejected(list[i]) /\ \A j \in 1..(i - 1) : ~Rejected(list[j])
Handlers(eps) == [i \in DOMAIN eps |-> eps[i].Handler]

\* C27: on a running service AddEndpoints adds the endpoints in argument order
\* and stops at the first one AddEndpoint rejects, whatever the cause: it
\* returns an error, without a panic, that starts with "could not add endpoint"
\* and wraps the cause; the endpoints before the failing one are registered,
\* the failing one and those after it are not.
C27_AddEndpointsStopsWithError ==
    (~service.isNil /\ service.hasConfig /\ service.microSvc = "running") =>
        \A list \in EndpointLists :
            LET f == FirstRejected(list)
                res == addEndpoints(service, attached, endpoints, list, 1)
            IN  IF f = 0
                THEN /\ res.err = NoError
                     /\ Handlers(res.endpoints) = Handlers(endpoints) \o list
                ELSE /\ res.err # <<"panic">>
                     /\ res.err # NoError
                     /\ Head(res.err) = "could not add endpoint"
                     /\ Handlers(res.endpoints) = Handlers(endpoints) \o SubSeq(list, 1, f - 1)

\* the same for the lists whose first rejected endpointer has a config, the
\* one without a name: holds
C27_StopsWithErrorOnEmptyName ==
    (~service.isNil /\ service.hasConfig /\ service.microSvc = "running") =>
        \A list \in EndpointLists :
            LET f == FirstRejected(list)
                res == addEndpoints(service, attached, endpoints, list, 1)
            IN  IF f = 0
                THEN /\ res.err = NoError
                     /\ Handlers(res.endpoints) = Handlers(endpoints) \o list
                ELSE (list[f] # "nil" /\ ~ConfigOf(list[f]).isNil) =>
                         /\ res.err # <<"panic">>
                         /\ res.err # NoError
                         /\ Head(res.err) = "could not add endpoint"
                         /\ Handlers(res.endpoints)
                                = Handlers(endpoints) \o SubSeq(list, 1, f - 1)

\* ------------------------------------------------------------------ C21
\* the updates that wait in the watcher's channel, the nil entry left out
Pending == SelectSeq(watcher.updates, LAMBDA e : ~e.isNil)
\* the call runs, no operation of the destination has failed, the watcher's
\* subscription is alive
Synchronizing == sync.pc = "running" /\ ~sync.failed /\ ~watcher.closed

\* the destination holds for the key what the entry says
Holds_(dest, e) ==
    IF e.op = "put"
    THEN e.key \in DOMAIN dest.bucket /\ dest.bucket[e.key] = e.value
    ELSE e.key \notin DOMAIN dest.bucket

\* the updates are handled in the order of the source's revisions
AppliedInOrder ==
    /\ \A i \in DOMAIN Pending : Pending[i].revision > sync.applied
    /\ \A i, j \in DOMAIN Pending : i < j => Pending[i].revision < Pending[j].revision

\* with nothing left to apply the destination agrees with the source on every
\* watched key the source has an entry of
InSyncWhenDrained ==
    (Synchronizing /\ Pending = << >>) =>
        \A i \in DOMAIN stream.last :
            matches(sync.keys, stream.last[i].key) => Holds_(destkv, stream.last[i])

\* every update that waits is applied, unless the call ends or the
\* destination fails first
EveryUpdateApplied ==
    \A r \in 1..MaxRevision :
        (\E i \in DOMAIN Pending : Pending[i].revision = r)
            ~> (sync.applied >= r \/ sync.pc = "returned")

\* C21: while SynchronizeWithKV runs and the destination's operations succeed,
\* every put and every delete of a watched key in the source is applied to the
\* destination in the end, the updates in the order of the source's
\* revisions; once nothing is left to apply the destination holds, for every
\* watched key the source has written or deleted, the latest value or no entry.
C21_DestinationFollowsSource ==
    /\ []AppliedInOrder
    /\ []InSyncWhenDrained
    /\ EveryUpdateApplied

\* a put of a watched key over an old entry of the destination and a later
\* delete of the key have both been applied
C21_Witness ==
    /\ Synchronizing /\ Pending = << >>
    /\ sync.applied = MaxRevision
    /\ \E i \in DOMAIN stream.last :
          /\ stream.last[i].key = "a" /\ stream.last[i].op = "purge"
          /\ stream.last[i].revision = MaxRevision
    /\ "a" \notin DOMAIN destkv.bucket

\* ------------------------------------------------------------------ C22
\* what the destination holds for a key: its value, or that it has no entry
destEntry(dest, key) ==
    IF key \in DOMAIN dest.bucket THEN <<dest.bucket[key]>> ELSE << >>

\* no step taken after the call was made touches the destination's entry of a
\* key outside the filters
NonWatchedKept ==
    \A k \in SyncKeys :
        (sync.pc # "idle" /\ ~matches(sync.keys, k))
            => destEntry(destkv', k) = destEntry(destkv, k)

\* C22: SynchronizeWithKV never creates, changes or removes the destination's
\* entry of a key that matches none of the key filters it was given, whatever
\* is put or deleted under that key in the source.
C22_NonWatchedKeysUntouched == [][NonWatchedKept]_vars

\* the source has deleted the non-watched key "b", a later update of "a" has
\* been applied, and the destination still holds its old entry of "b"
C22_Witness ==
    /\ sync.pc = "running" /\ ~matches(sync.keys, "b")
    /\ \E i \in DOMAIN stream.last :
          /\ stream.last[i].key = "b" /\ stream.last[i].op = "purge"
          /\ stream.last[i].revision < sync.applied
    /\ "a" \in DOMAIN destkv.bucket
    /\ destEntry(destkv, "b") = <<RawBytes(<<"old">>)>>

\* ------------------------------------------------------------------ C23
\* C23: when a Set or a Delete of the destination has failed while an update
\* of the source was applied, put, delete or purge, SynchronizeWithKV has
\* stopped and returned an error.
C23_DestinationFailureReturned ==
    sync.failed => (sync.pc = "returned" /\ sync.ret # NoError)

\* the same for the updates the code returns on: a failure on a put or on a
\* delete update ends the call with the wrapped error
PutOrDeleteFailureEnds ==
    (sync.pc = "running" /\ ~sync.failed /\ sync'.failed
        /\ Head(watcher.updates).op \in {"put", "delete"})
        => /\ sync'.pc = "returned"
           /\ Head(sync'.ret) \in {"failed to set value for key",
                                    "failed to delete value for key"}
C23_PutOrDeleteFailureReturned == [][PutOrDeleteFailureEnds]_vars

\* ------------------------------------------------------------------ C24
\* the context of a running call is done
Cancelled == sync.pc = "running" /\ syncCtx # "live"
\* a call that had opened its watcher has returned, its context done
EndedCancelled == sync.pc = "returned" /\ syncCtx # "live" /\ watcher.keys # << >>
\* nothing is applied to the destination after the call has returned
NothingAppliedAfterReturn == sync.pc = "returned" => destkv' = destkv
\* the error of the context: context.Canceled or context.DeadlineExceeded
IsContextError(ret) ==
    \/ syncCtx = "canceled" /\ ret = <<"context canceled">>
    \/ syncCtx = "deadline" /\ ret = <<"context deadline exceeded">>

FromStartEmbedded ==
    ~embedded.isNil /\ lastEmb.start = "StartEmbedded" /\ embedded.server.running

\* C25: on the server StartEmbedded returns ClientURL() is empty and
\* NewTCPConnection() fails with the in-process-only error, while Connection()
\* is connected and JetStream() is not nil.
C25_StartEmbeddedInProcessOnly ==
    FromStartEmbedded =>
        /\ ClientURL(embedded) = EmptyString
        /\ NewTCPConnection(embedded).err
              = <<"server is configured for in-process only connections">>
        /\ Connection(embedded) = "connected"
        /\ JetStream(embedded) # "nil"

\* what StartEmbedded does give: the in-process connection is connected and
\* JetStream is there, and the server listens on 127.0.0.1:4222
C25_StartEmbeddedListens ==
    FromStartEmbedded =>
        /\ Connection(embedded) = "connected"
        /\ JetStream(embedded) # "nil"
        /\ ClientURL(embedded) = <<"nats://", "127.0.0.1", ":", "4222">>
        /\ NewTCPConnection(embedded).err = NoError

\* the in-process-only server is the one StartEmbeddedInProcess returns
C25_InProcessIsInProcessOnly ==
    (~embedded.isNil /\ lastEmb.start = "StartEmbeddedInProcess")
        => /\ ClientURL(embedded) = EmptyString
           /\ NewTCPConnection(embedded).err
                 = <<"server is configured for in-process only connections">>

\* ------------------------------------------------------------------ C28
\* the subscription on the call's inbox was there when the request went out
SubscribedBeforePublish == req.published => req.subscribedFirst
\* the handler of a call has run once at most
HandledAtMostOnce == \A i \in Inboxes : req.handled[i] <= 1
\* a reply on its way finds the subscription, unless the handler has run or
\* the connection is closed
ReplyFindsHandler ==
    \A i \in DOMAIN replies :
        (natsConn.status = "connected" /\ req.handled[replies[i]] = 0)
            => replies[i] \in DOMAIN natsConn.subs
\* a call that returned an error has left no subscription on its inbox
NoSubscriptionAfterError ==
    (req.pc = "returned" /\ req.ret # NoError) => req.inbox \notin DOMAIN natsConn.subs

\* C28: the subscription on the fresh inbox exists before the request is
\* published, so a reply sent after the publish reaches the handler; the
\* handler is invoked at most once per call; a RequestAsync that returns an
\* error leaves no active subscription on that inbox.
C28_RequestAsyncSubscription ==
    /\ SubscribedBeforePublish
    /\ ReplyFindsHandler
    /\ HandledAtMostOnce
    /\ NoSubscriptionAfterError

\* the claim without its last part
C28_SubscribedFirstHandledOnce ==
    /\ SubscribedBeforePublish
    /\ ReplyFindsHandler
    /\ HandledAtMostOnce

====
